---- MODULE Spec2Model ----
(***************************************************************************)
(* Model of the UI5 linter pipeline: the batch scheduler of                *)
(* ui5lintCheckRepos.js (clone, discover, lint, clean up, checkpoint) and  *)
(* the pure functions it relies on.                                        *)
(***************************************************************************)
EXTENDS Integers, Sequences, FiniteSets, TLC

(***************************************************************************)
(* Bounds of the model.  batchSize and numBatches are 20 and 5 in the      *)
(* source (ui5lintCheckRepos.js:169-170); they are scaled down here so     *)
(* that a second super-batch is reached with a catalog of MaxRepos         *)
(* entries.                                                                *)
(***************************************************************************)
batchSize == 2
numBatches == 2
MaxRepos == 5
MaxDupLen == 3
MaxRuns == 2
MaxFaults == 2

VARIABLES
  catalogFile,      \* ui5-repos.json: sequence of repository metadata
  processedFile,    \* processed-repos_<version>.json: absent, or a set of strings
  analysisFile,     \* ui5-project-analysis_<version>.json: absent, or a sequence
  tmpdirs,          \* the temporary clone directories that exist on disk
  mainPc,           \* position of main()
  processedRepos,   \* main: the in-memory Checkpoint Set
  unprocessedRepos, \* main: repos.filter(...)
  i,                \* main: offset of the current super-batch
  allResults,       \* main: the accumulated Repository Results
  bpc,              \* processBatch j: position
  batch,            \* processBatch j: its slice of unprocessedRepos
  bidx,             \* processBatch j: index of the current repo in its slice
  results,          \* processBatch j: its local results array
  ui5Apps,          \* processBatch j: the apps discovered in the current repo
  appIdx,           \* processBatch j: index of the next app to lint
  repoApps,         \* processBatch j: repoResult.apps of the current repo
  caught,           \* processBatch j: what the catch block caught for the current repo
  faults,           \* number of failures of git, readdir and rm injected so far
  runs,             \* number of runs of the script started so far
  loadedCheckpoint, \* the checkpoint file's contents when the current run started
  analysisAtStart,  \* the results file's contents when the current run started
  lintCall,         \* the last call of runUI5Linter: its tool run and its outcome
  tree,             \* findUI5Apps: the directory tree it is called on
  found,            \* findUI5Apps: what the call returned
  data,             \* processFilePair: the parsed contents of the input file
  report,           \* processFilePair: the report it wrote
  analyses,         \* analyize.js: the number of times the script has run
  searchPc,         \* searchUI5Repos.js: position of main()
  page,             \* searchUI5Projects: the next page to request
  allItems,         \* searchUI5Projects: the code search hits accumulated
  searchResult,     \* search main: what searchUI5Projects returned (repos)
  existingRepos,    \* search main: the catalog as loaded
  reposWithMetadata,\* search main: the metadata fetched in this run
  cursor,           \* search main: index of the next hit to look at
  searchRuns,       \* number of runs of searchUI5Repos.js started so far
  fetches,          \* the metadata fetches of the current run: id and outcome
  ghPc,             \* searchGitHub.js: position of processBatch
  ghRepos,          \* searchGitHub.js processBatch: the batch of hits (repos)
  ghIdx,            \* searchGitHub.js processBatch: index of the current hit
  ghProcessed,      \* searchGitHub.js processBatch: the set processedRepos
  ghResults,        \* searchGitHub.js processBatch: the array results
  repoMetadata,     \* searchGitHub.js processBatch: what getRepoMetadata returned
  ghUi5Apps,        \* searchGitHub.js processBatch: the apps discovered
  ghAppIdx,         \* searchGitHub.js processBatch: index of the next app to lint
  repoResult        \* searchGitHub.js processBatch: the result being built

durable == <<catalogFile, processedFile, analysisFile, tmpdirs>>
mainVars == <<mainPc, processedRepos, unprocessedRepos, i, allResults>>
batchVars == <<bpc, batch, bidx, results, ui5Apps, appIdx, repoApps, caught>>
history == <<faults, runs, loadedCheckpoint, analysisAtStart>>
discovery == <<searchPc, page, allItems, searchResult, existingRepos,
               reposWithMetadata, cursor, searchRuns, fetches>>
combined == <<ghPc, ghRepos, ghIdx, ghProcessed, ghResults, repoMetadata,
              ghUi5Apps, ghAppIdx, repoResult>>
pure == <<tree, found, data, report, analyses, discovery, combined>>
vars == <<durable, mainVars, batchVars, history, lintCall, pure>>

Batches == 0 .. (numBatches - 1)

\* A file that does not exist (reading it fails with ENOENT), and a file.
NoFile(empty) == [exists |-> FALSE, data |-> empty]
FileOf(contents) == [exists |-> TRUE, data |-> contents]

----------------------------------------------------------------------------
(* Repositories and their working trees *)

Repo(id) ==
  [id |-> id,
   full_name |-> "owner/repo" \o ToString(id),
   html_url |-> "https://github.com/owner/repo" \o ToString(id)]

File(name) == [name |-> name, isDir |-> FALSE, children |-> <<>>]
Dir(name, children) == [name |-> name, isDir |-> TRUE, children |-> children]

\* A directory with ui5.yaml, webapp/ and webapp/manifest.json, plus `more`.
AppDir(name, more) ==
  Dir(name, <<File("ui5.yaml"), Dir("webapp", <<File("manifest.json")>>)>> \o more)

\* The working tree `git clone` materialises for a repository.
RepoTree(id) ==
  CASE id = 1 -> AppDir("", <<File("package.json")>>)
    [] id = 2 -> Dir("", <<Dir("packages", <<AppDir("a", <<>>), AppDir("b", <<>>)>>)>>)
    [] OTHER  -> Dir("", <<File("README.md"), Dir("src", <<File("ui5.yaml")>>)>>)

----------------------------------------------------------------------------
(* findUI5Apps *)

\* fs.existsSync(path.join(dir, name)): some entry of dir has that name.
existsSync(dir, name) == \E k \in 1 .. Len(dir.children) : dir.children[k].name = name

\* The entry of dir called name (only used where existsSync holds).
Entry(dir, name) ==
  dir.children[CHOOSE k \in 1 .. Len(dir.children) : dir.children[k].name = name]

\* The test of ui5lintCheckRepos.js:33 on the directory fullPath.
IsUI5App(dir) ==
  /\ existsSync(dir, "ui5.yaml")
  /\ existsSync(dir, "webapp")
  /\ existsSync(Entry(dir, "webapp"), "manifest.json")

RECURSIVE findUI5AppsDescending(_, _, _)
\* A faulty variant: a directory that passes the test is searched as well.
findUI5AppsDescending(dir, dirPath, k) ==
  IF k > Len(dir.children) THEN <<>>
  ELSE LET item == dir.children[k]
           fullPath == Append(dirPath, item.name)
           apps == IF ~item.isDir THEN <<>>
                   ELSE (IF IsUI5App(item) THEN <<fullPath>> ELSE <<>>)
                          \o findUI5AppsDescending(item, fullPath, 1)
       IN apps \o findUI5AppsDescending(dir, dirPath, k + 1)

RECURSIVE findUI5AppsFrom(_, _, _)
\* The loop of findUI5Apps over items[k..], dir being at path dirPath.
findUI5AppsFrom(dir, dirPath, k) ==
  IF k > Len(dir.children) THEN <<>>
  ELSE LET item == dir.children[k]
           fullPath == Append(dirPath, item.name)
           apps == IF ~item.isDir THEN <<>>
                   ELSE IF IsUI5App(item) THEN <<fullPath>>
                   ELSE findUI5AppsFrom(item, fullPath, 1)
       IN apps \o findUI5AppsFrom(dir, dirPath, k + 1)

findUI5Apps(dir, dirPath) == findUI5AppsFrom(dir, dirPath, 1)

RECURSIVE readdirFrom(_, _, _)
\* The directories the recursive calls made from items[k..] list with
\* readdir, in the order of the calls: those that fail the test of line 33.
readdirFrom(dir, dirPath, k) ==
  IF k > Len(dir.children) THEN <<>>
  ELSE LET item == dir.children[k]
           fullPath == Append(dirPath, item.name)
           below == IF item.isDir /\ ~IsUI5App(item)
                    THEN <<fullPath>> \o readdirFrom(item, fullPath, 1)
                    ELSE <<>>
       IN below \o readdirFrom(dir, dirPath, k + 1)

\* Every directory a call of findUI5Apps lists with readdir (line 23): the
\* one it is called on, then those of its recursive calls.
readdirCalls(dir, dirPath) == <<dirPath>> \o readdirFrom(dir, dirPath, 1)

\* The value of `found` while findUI5Apps has not returned.
NotCalled == [returned |-> FALSE, apps |-> <<>>, read |-> <<>>]

----------------------------------------------------------------------------
(* runUI5Linter *)

\* JSON values as far as the pipeline tells them apart.
JsonNull == [t |-> "null", v |-> <<>>]
JsonArray(v) == [t |-> "array", v |-> v]

\* JavaScript truthiness of a JSON value / of a captured output string.
Truthy(x) == x.t # "null"
NonEmpty(s) == s # ""

\* One result object of the linter's JSON report.
LintFinding ==
  [errorCount |-> 1,
   messages |-> <<[ruleId |-> "no-deprecated-api", message |-> "m1"]>>]

\* JSON.parse: the value, or threw for text that is no JSON document.
JSONParse(s) ==
  CASE s = "[finding]" -> [threw |-> FALSE, val |-> JsonArray(<<LintFinding>>)]
    [] s = "null"      -> [threw |-> FALSE, val |-> JsonNull]
    [] OTHER           -> [threw |-> TRUE, val |-> JsonNull]

\* What one invocation of the external tool can do: its exit and its stdout.
\* "spawn" is a failure to start the process at all (no output captured).
ToolRuns ==
  {[status |-> "exit0", stdout |-> "[finding]"],
   [status |-> "exit0", stdout |-> "Usage: ui5lint"],
   [status |-> "nonzero", stdout |-> "[finding]"],
   [status |-> "nonzero", stdout |-> "Error: crashed"],
   [status |-> "nonzero", stdout |-> ""],
   [status |-> "spawn", stdout |-> ""]}

SpawnFailure == [status |-> "spawn", stdout |-> ""]

Returned(v) == [raised |-> FALSE, value |-> v]
Raised == [raised |-> TRUE, value |-> JsonNull]

\* A faulty variant: a failed invocation is a failure, whatever it printed.
runUI5LinterCatchStrict(errStdout) == Returned(JsonNull)

\* The catch block of runUI5Linter, errStdout being error.stdout ("" when the
\* error carries none, as a SyntaxError of JSON.parse does).
runUI5LinterCatch(errStdout) ==
  IF NonEmpty(errStdout) /\ ~JSONParse(errStdout).threw
  THEN Returned(JSONParse(errStdout).val)
  ELSE Returned(JsonNull)

runUI5Linter(run) ==
  IF run.status = "exit0"
  THEN IF ~JSONParse(run.stdout).threw
       THEN Returned(JSONParse(run.stdout).val)
       ELSE runUI5LinterCatch("")
  ELSE runUI5LinterCatch(run.stdout)

NoCall == [called |-> FALSE, run |-> SpawnFailure, out |-> Returned(JsonNull)]

----------------------------------------------------------------------------
(* Files, keys and paths *)

\* repo.id.toString()
RepoKey(repo) == ToString(repo.id)

\* path.join(os.tmpdir(), `ui5-project-${repo.id}`)
TempDir(repo) == <<"tmp", "ui5-project-" \o ToString(repo.id)>>

\* path.relative(tempDir, appPath)
Relative(tempDir, appPath) == SubSeq(appPath, Len(tempDir) + 1, Len(appPath))

\* A faulty variant: the checkpoint is read from a file name that is never written.
loadProcessedReposWrongFile(file) == {}

\* loadProcessedRepos: a missing file is the empty set.
loadProcessedRepos(file) == IF file.exists THEN file.data ELSE {}

\* A faulty variant: only the identifiers added in this run are written.
saveProcessedReposNewOnly(processed) == FileOf(processed \ loadedCheckpoint)

\* saveProcessedRepos: the set written as a JSON array of its members.
saveProcessedRepos(processed) == FileOf(processed)

\* processedRepos.has(repo.id.toString())
IsProcessed(repo, processed) == RepoKey(repo) \in processed

RECURSIVE Filter(_, _)
\* repos.filter(repo => !processedRepos.has(repo.id.toString()))
Filter(repos, processed) ==
  IF repos = <<>> THEN <<>>
  ELSE (IF IsProcessed(Head(repos), processed) THEN <<>> ELSE <<Head(repos)>>)
       \o Filter(Tail(repos), processed)

\* A faulty variant: the element at index `end` is taken as well.
SliceInclusive(s, start, end) ==
  SubSeq(s, start + 1, IF end + 1 < Len(s) THEN end + 1 ELSE Len(s))

\* Array.prototype.slice(start, end) with 0-based, end-exclusive indices.
Slice(s, start, end) ==
  SubSeq(s, start + 1, IF end < Len(s) THEN end ELSE Len(s))

\* A faulty variant: only the first batch's results are kept.
FlatFirstOnly(res, j) == res[j]

RECURSIVE Flat(_, _)
\* batchResults.flat(): the batches' result arrays in batch order, from j on.
Flat(res, j) == IF j >= numBatches THEN <<>> ELSE res[j] \o Flat(res, j + 1)

\* The catalogs the scheduler is started on: identifiers in order of first
\* occurrence; a catalog of up to MaxDupLen entries may repeat identifiers.
Range(f) == {f[k] : k \in DOMAIN f}
CatalogIds ==
  {c \in UNION {[1 .. n -> 1 .. MaxRepos] : n \in 0 .. MaxRepos} :
     /\ \A k \in DOMAIN c : c[k] <= 1 + Cardinality({c[j] : j \in 1 .. (k - 1)})
     /\ Len(c) > MaxDupLen => Cardinality(Range(c)) = Len(c)}
Catalogs == {[k \in DOMAIN c |-> Repo(c[k])] : c \in CatalogIds}

----------------------------------------------------------------------------
(* processFilePair of analyize.js *)

TopN == 5

\* A JavaScript object with string keys, as the sequence of its entries in
\* insertion order: the order Object.entries and JSON.stringify follow.
HasKey(table, key) == \E k \in DOMAIN table : table[k].key = key

\* if (!table[key]) table[key] = 0; table[key]++
Increment(table, key) ==
  IF HasKey(table, key)
  THEN [k \in DOMAIN table |->
          IF table[k].key = key
          THEN [key |-> key, count |-> table[k].count + 1]
          ELSE table[k]]
  ELSE Append(table, [key |-> key, count |-> 1])

\* A faulty variant: an entry is placed before the entries of the same count.
InsertByCountBeforeTies(sorted, e) ==
  LET before == {k \in DOMAIN sorted : sorted[k].count > e.count}
  IN SubSeq(sorted, 1, Cardinality(before)) \o <<e>>
       \o SubSeq(sorted, Cardinality(before) + 1, Len(sorted))

\* One step of the stable sort by (a, b) => b[1] - a[1]: e goes behind every
\* entry whose count is not smaller, `sorted` being sorted already.
InsertByCount(sorted, e) ==
  LET before == {k \in DOMAIN sorted : sorted[k].count >= e.count}
  IN SubSeq(sorted, 1, Cardinality(before)) \o <<e>>
       \o SubSeq(sorted, Cardinality(before) + 1, Len(sorted))

RECURSIVE SortFrom(_, _, _)
SortFrom(sorted, entries, k) ==
  IF k > Len(entries) THEN sorted
  ELSE SortFrom(InsertByCount(sorted, entries[k]), entries, k + 1)

\* Object.entries(table).sort((a, b) => b[1] - a[1]).reduce(...): the table
\* with its entries in descending order of count, the sort being stable.
SortByCount(table) == SortFrom(<<>>, table, 1)

\* Set.prototype.add on a set kept as the sequence of its members.
SetAdd(set, x) == IF x \in Range(set) THEN set ELSE Append(set, x)

RECURSIVE CountMessagesUnfiltered(_, _, _)
\* A faulty variant: the text of every diagnostic is counted, whatever its rule.
CountMessagesUnfiltered(acc, messages, k) ==
  IF k > Len(messages) THEN acc
  ELSE LET m == messages[k]
           counted == [acc EXCEPT !.ruleViolations = Increment(@, m.ruleId)]
           next == [counted EXCEPT !.deprecatedApiMessages = Increment(@, m.message)]
       IN CountMessagesUnfiltered(next, messages, k + 1)

RECURSIVE CountMessages(_, _, _)
\* Lines 42-55: result.messages.forEach of the first pass, from message k on.
CountMessages(acc, messages, k) ==
  IF k > Len(messages) THEN acc
  ELSE LET m == messages[k]
           counted == [acc EXCEPT !.ruleViolations = Increment(@, m.ruleId)]
           next == IF m.ruleId = "no-deprecated-api"
                   THEN [counted EXCEPT !.deprecatedApiMessages = Increment(@, m.message)]
                   ELSE counted
       IN CountMessages(next, messages, k + 1)

RECURSIVE CountResults(_, _, _, _)
\* Lines 38-57: app.linterResult.forEach of the first pass, from result k on.
CountResults(acc, repo, linterResult, k) ==
  IF k > Len(linterResult) THEN acc
  ELSE LET result == linterResult[k]
           next == IF Len(result.messages) > 0
                   THEN CountMessages(
                          [acc EXCEPT !.totalLinterErrors = @ + result.errorCount,
                                      !.reposWithErrors = SetAdd(@, repo.repoMetadata.html_url)],
                          result.messages, 1)
                   ELSE acc
       IN CountResults(next, repo, linterResult, k + 1)

RECURSIVE CountApps(_, _, _)
\* Lines 35-59: repo.apps.forEach of the first pass, from app k on.
CountApps(acc, repo, k) ==
  IF k > Len(repo.apps) THEN acc
  ELSE LET app == repo.apps[k]
           counted == [acc EXCEPT !.totalApps = @ + 1]
           next == IF Truthy(app.linterResult)
                   THEN CountResults(counted, repo, app.linterResult.v, 1)
                   ELSE counted
       IN CountApps(next, repo, k + 1)

RECURSIVE CountRepos(_, _, _)
\* Lines 33-61: data.forEach of the first pass, from repository k on.
CountRepos(acc, repos, k) ==
  IF k > Len(repos) THEN acc
  ELSE CountRepos(IF Len(repos[k].apps) > 0 THEN CountApps(acc, repos[k], 1) ELSE acc,
                  repos, k + 1)

\* Lines 26-30: the counters before the first pass.
NoCounts ==
  [totalApps |-> 0, totalLinterErrors |-> 0, ruleViolations |-> <<>>,
   reposWithErrors |-> <<>>, deprecatedApiMessages |-> <<>>]

\* A faulty variant: only the rules of topRuleViolations get a details entry.
EmptyDetailsTopOnly(sortedViolations) ==
  [k \in 1 .. (IF Len(sortedViolations) < TopN THEN Len(sortedViolations) ELSE TopN) |->
     [key |-> sortedViolations[k].key, count |-> sortedViolations[k].count,
      messages |-> <<>>]]

\* Lines 88-93: one empty details entry per rule of the sorted table.
EmptyDetails(sortedViolations) ==
  [k \in DOMAIN sortedViolations |->
     [key |-> sortedViolations[k].key, count |-> sortedViolations[k].count,
      messages |-> <<>>]]

\* Lines 103-106: the message text is counted under its rule; looking up a
\* rule that has no details entry throws a TypeError.
DetailMessage(details, m) ==
  IF ~details.threw /\ HasKey(details.rules, m.ruleId)
  THEN [details EXCEPT !.rules =
          [k \in DOMAIN @ |->
             IF @[k].key = m.ruleId
             THEN [@[k] EXCEPT !.messages = Increment(@, m.message)]
             ELSE @[k]]]
  ELSE [details EXCEPT !.threw = TRUE]

RECURSIVE DetailMessages(_, _, _)
DetailMessages(details, messages, k) ==
  IF k > Len(messages) THEN details
  ELSE DetailMessages(DetailMessage(details, messages[k]), messages, k + 1)

RECURSIVE DetailResults(_, _, _)
DetailResults(details, linterResult, k) ==
  IF k > Len(linterResult) THEN details
  ELSE DetailResults(IF Len(linterResult[k].messages) > 0
                     THEN DetailMessages(details, linterResult[k].messages, 1)
                     ELSE details,
                     linterResult, k + 1)

RECURSIVE DetailApps(_, _, _)
DetailApps(details, apps, k) ==
  IF k > Len(apps) THEN details
  ELSE DetailApps(IF Truthy(apps[k].linterResult)
                  THEN DetailResults(details, apps[k].linterResult.v, 1)
                  ELSE details,
                  apps, k + 1)

RECURSIVE DetailRepos(_, _, _)
\* Lines 96-113: the second pass over the data, from repository k on.
DetailRepos(details, repos, k) ==
  IF k > Len(repos) THEN details
  ELSE DetailRepos(IF Len(repos[k].apps) > 0
                   THEN DetailApps(details, repos[k].apps, 1)
                   ELSE details,
                   repos, k + 1)

\* Lines 116-120: the messages of every rule sorted by count.
SortDetails(rules) ==
  [k \in DOMAIN rules |-> [rules[k] EXCEPT !.messages = SortByCount(@)]]

\* The report while none has been written.
NoReport ==
  [written |-> FALSE, threw |-> FALSE, totalRepositories |-> 0,
   repositoriesWithApps |-> 0, totalApps |-> 0, totalLinterErrors |-> 0,
   repositoriesWithErrors |-> 0, topRuleViolations |-> <<>>,
   allRuleViolations |-> <<>>, deprecatedApiMessages |-> <<>>,
   ruleViolationDetails |-> <<>>]

\* processFilePair: the report computed from the parsed input file.
processFilePair(repos) ==
  LET counts == CountRepos(NoCounts, repos, 1)
      sortedViolations == SortByCount(counts.ruleViolations)
      details == DetailRepos([threw |-> FALSE, rules |-> EmptyDetails(sortedViolations)],
                             repos, 1)
  IN [written |-> ~details.threw,
      threw |-> details.threw,
      totalRepositories |-> Len(repos),
      repositoriesWithApps |-> Cardinality({k \in DOMAIN repos : Len(repos[k].apps) > 0}),
      totalApps |-> counts.totalApps,
      totalLinterErrors |-> counts.totalLinterErrors,
      repositoriesWithErrors |-> Len(counts.reposWithErrors),
      topRuleViolations |-> Slice(sortedViolations, 0, TopN),
      allRuleViolations |-> sortedViolations,
      deprecatedApiMessages |-> SortByCount(counts.deprecatedApiMessages),
      ruleViolationDetails |-> SortDetails(details.rules)]

----------------------------------------------------------------------------
(* The state of a process that is not running *)

IdleBatch(x) == [j \in Batches |-> x]

IdleMemory ==
  /\ processedRepos' = {}
  /\ unprocessedRepos' = <<>>
  /\ i' = 0
  /\ allResults' = <<>>
  /\ bpc' = IdleBatch("idle")
  /\ batch' = IdleBatch(<<>>)
  /\ bidx' = IdleBatch(1)
  /\ results' = IdleBatch(<<>>)
  /\ ui5Apps' = IdleBatch(<<>>)
  /\ appIdx' = IdleBatch(1)
  /\ repoApps' = IdleBatch(<<>>)
  /\ caught' = IdleBatch("none")
  /\ loadedCheckpoint' = {}
  /\ analysisAtStart' = <<>>

\* The scheduler before its first run, the catalog being given.
SchedulerInit(catalog) ==
  /\ catalogFile = catalog
  /\ processedFile = NoFile({})
  /\ analysisFile = NoFile(<<>>)
  /\ tmpdirs = {}
  /\ mainPc = "idle"
  /\ processedRepos = {}
  /\ unprocessedRepos = <<>>
  /\ i = 0
  /\ allResults = <<>>
  /\ bpc = IdleBatch("idle")
  /\ batch = IdleBatch(<<>>)
  /\ bidx = IdleBatch(1)
  /\ results = IdleBatch(<<>>)
  /\ ui5Apps = IdleBatch(<<>>)
  /\ appIdx = IdleBatch(1)
  /\ repoApps = IdleBatch(<<>>)
  /\ caught = IdleBatch("none")
  /\ runs = 0
  /\ faults = 0
  /\ loadedCheckpoint = {}
  /\ analysisAtStart = <<>>
  /\ lintCall = NoCall

\* searchUI5Repos.js before its first run.
DiscoveryIdle ==
  /\ searchPc = "idle"
  /\ page = 1
  /\ allItems = <<>>
  /\ searchResult = <<>>
  /\ existingRepos = <<>>
  /\ reposWithMetadata = <<>>
  /\ cursor = 1
  /\ searchRuns = 0
  /\ fetches = <<>>

\* The value of a local of processBatch that has not been assigned.
JsonUndefined == [t |-> "undefined", v |-> <<>>]

\* The result object of a repository before it is created.
NoRepoResult == [repoMetadata |-> JsonUndefined, apps |-> <<>>]

\* processBatch of searchGitHub.js not being called.
CombinedIdle ==
  /\ ghPc = "idle"
  /\ ghRepos = <<>>
  /\ ghIdx = 1
  /\ ghProcessed = {}
  /\ ghResults = <<>>
  /\ repoMetadata = JsonUndefined
  /\ ghUi5Apps = <<>>
  /\ ghAppIdx = 1
  /\ repoResult = NoRepoResult

\* findUI5Apps and processFilePair not being exercised.
PureIdle ==
  /\ tree = Dir("", <<>>)
  /\ found = NotCalled
  /\ data = <<>>
  /\ report = NoReport
  /\ analyses = 0
  /\ DiscoveryIdle
  /\ CombinedIdle

Init ==
  /\ \E catalog \in Catalogs : SchedulerInit(catalog)
  /\ PureIdle

----------------------------------------------------------------------------
(* main of ui5lintCheckRepos.js *)

\* Lines 153-171: load the catalog and the checkpoint, filter, initialise.
StartRun ==
  /\ mainPc = "idle"
  /\ runs < MaxRuns
  /\ runs' = runs + 1
  /\ loadedCheckpoint' = (IF processedFile.exists THEN processedFile.data ELSE {})
  /\ analysisAtStart' = (IF analysisFile.exists THEN analysisFile.data ELSE <<>>)
  /\ processedRepos' = loadProcessedRepos(processedFile)
  /\ unprocessedRepos' = Filter(catalogFile, loadProcessedRepos(processedFile))
  /\ i' = 0
  /\ allResults' = <<>>
  /\ mainPc' = "loop"
  /\ lintCall' = NoCall
  /\ UNCHANGED pure
  /\ UNCHANGED <<durable, batchVars, faults>>

\* Lines 173-181: the next super-batch; every processBatch call is started.
Dispatch ==
  /\ mainPc = "loop"
  /\ i < Len(unprocessedRepos)
  /\ batch' = [j \in Batches |->
                 Slice(unprocessedRepos, i + j * batchSize, i + j * batchSize + batchSize)]
  /\ bpc' = IdleBatch("loop")
  /\ bidx' = IdleBatch(1)
  /\ results' = IdleBatch(<<>>)
  /\ mainPc' = "await"
  /\ lintCall' = NoCall
  /\ UNCHANGED pure
  /\ UNCHANGED <<durable, processedRepos, unprocessedRepos, i, allResults,
                 ui5Apps, appIdx, repoApps, caught, history>>

\* Line 173: the loop ends when every unprocessed repository was dispatched.
LoopExit ==
  /\ mainPc = "loop"
  /\ i >= Len(unprocessedRepos)
  /\ mainPc' = "finalWrite"
  /\ lintCall' = NoCall
  /\ UNCHANGED pure
  /\ UNCHANGED <<durable, processedRepos, unprocessedRepos, i, allResults,
                 batchVars, history>>

\* Lines 183-184: Promise.all resolves once every batch has returned.
PromiseAll ==
  /\ mainPc = "await"
  /\ \A j \in Batches : bpc[j] = "done"
  /\ allResults' = allResults \o Flat(results, 0)
  /\ bpc' = IdleBatch("idle")
  /\ mainPc' = "writeResults"
  /\ lintCall' = NoCall
  /\ UNCHANGED pure
  /\ UNCHANGED <<durable, processedRepos, unprocessedRepos, i,
                 batch, bidx, results, ui5Apps, appIdx, repoApps, caught, history>>

\* Line 183: Promise.all rejects as soon as one batch has rejected; main
\* throws and main().catch logs it.  The other batches keep running.
PromiseAllRejects ==
  /\ mainPc = "await"
  /\ \E j \in Batches : bpc[j] = "rejected"
  /\ mainPc' = "aborted"
  /\ lintCall' = NoCall
  /\ UNCHANGED pure
  /\ UNCHANGED <<durable, processedRepos, unprocessedRepos, i, allResults,
                 batchVars, history>>

\* What main does after a super-batch's results were written.
AfterWriteResults == "saveProcessed"

\* Line 189: the intermediate results are written.
WriteResults ==
  /\ mainPc = "writeResults"
  /\ analysisFile' = FileOf(allResults)
  /\ mainPc' = AfterWriteResults
  /\ lintCall' = NoCall
  /\ UNCHANGED pure
  /\ UNCHANGED <<catalogFile, processedFile, tmpdirs, processedRepos,
                 unprocessedRepos, i, allResults, batchVars, history>>

\* A faulty variant: the checkpoint is saved only once, after the loop.
SaveProcessedOnlyAtEnd ==
  /\ mainPc = "saveProcessed"
  /\ i' = i + batchSize * numBatches
  /\ mainPc' = "loop"
  /\ lintCall' = NoCall
  /\ UNCHANGED pure
  /\ UNCHANGED <<durable, processedRepos, unprocessedRepos, allResults, batchVars,
                 history>>

\* Line 190 and the loop increment of line 173.
SaveProcessed ==
  /\ mainPc = "saveProcessed"
  /\ processedFile' = saveProcessedRepos(processedRepos)
  /\ i' = i + batchSize * numBatches
  /\ mainPc' = "loop"
  /\ lintCall' = NoCall
  /\ UNCHANGED pure
  /\ UNCHANGED <<catalogFile, analysisFile, tmpdirs, processedRepos,
                 unprocessedRepos, allResults, batchVars, history>>

\* Line 195: the final results are written.
FinalWrite ==
  /\ mainPc = "finalWrite"
  /\ analysisFile' = FileOf(allResults)
  /\ mainPc' = "finalSave"
  /\ lintCall' = NoCall
  /\ UNCHANGED pure
  /\ UNCHANGED <<catalogFile, processedFile, tmpdirs, processedRepos,
                 unprocessedRepos, i, allResults, batchVars, history>>

\* Line 196 and the end of main: the process exits.
FinalSave ==
  /\ mainPc = "finalSave"
  /\ processedFile' = saveProcessedRepos(processedRepos)
  /\ mainPc' = "idle"
  /\ IdleMemory
  /\ lintCall' = NoCall
  /\ UNCHANGED pure
  /\ UNCHANGED <<catalogFile, analysisFile, tmpdirs, runs, faults>>

\* After main has thrown, the process exits when no batch is left running.
AbortedExit ==
  /\ mainPc = "aborted"
  /\ \A j \in Batches : bpc[j] \in {"done", "rejected"}
  /\ mainPc' = "idle"
  /\ IdleMemory
  /\ lintCall' = NoCall
  /\ UNCHANGED pure
  /\ UNCHANGED <<durable, runs, faults>>

\* The run is interrupted: the process dies, memory is lost, files stay.
Crash ==
  /\ mainPc # "idle"
  /\ mainPc' = "idle"
  /\ IdleMemory
  /\ lintCall' = NoCall
  /\ UNCHANGED pure
  /\ UNCHANGED <<durable, runs, faults>>

----------------------------------------------------------------------------
(* processBatch of ui5lintCheckRepos.js, one instance per batch j *)

\* The outcomes the environment can give a call of git, readdir or rm: it
\* works (TRUE), or it fails (FALSE) while failures are left to inject.
Outcomes == IF faults < MaxFaults THEN BOOLEAN ELSE {TRUE}

\* An injected failure counts; a failure the file system forces does not.
Fault(ok) == IF ok THEN 0 ELSE 1

\* The repository batch j is working on.
Current(j) == batch[j][bidx[j]]

Running(j) == mainPc \in {"await", "aborted"}

\* Lines 101, 149: the loop is over, the batch returns its results.
BatchReturns(j) ==
  /\ Running(j)
  /\ bpc[j] = "loop"
  /\ bidx[j] > Len(batch[j])
  /\ bpc' = [bpc EXCEPT ![j] = "done"]
  /\ lintCall' = NoCall
  /\ UNCHANGED pure
  /\ UNCHANGED <<durable, mainVars, batch, bidx, results, ui5Apps, appIdx,
                 repoApps, caught, history>>

\* Lines 102-105: a repository already in the Checkpoint Set is skipped.
SkipProcessed(j) ==
  /\ Running(j)
  /\ bpc[j] = "loop"
  /\ bidx[j] <= Len(batch[j])
  /\ IsProcessed(Current(j), processedRepos)
  /\ bidx' = [bidx EXCEPT ![j] = @ + 1]
  /\ lintCall' = NoCall
  /\ UNCHANGED pure
  /\ UNCHANGED <<durable, mainVars, bpc, batch, results, ui5Apps, appIdx,
                 repoApps, caught, history>>

\* Where processBatch continues when the try block throws: the catch block
\* logs, then the finally block runs.
AfterThrow == "finally"

\* A faulty variant: the catch block checkpoints the repository it failed on.
OnCatchCheckpoints(processed, repo) == processed \cup {ToString(repo.id)}

\* Lines 141-142: the catch block only logs; the Checkpoint Set stays as it is.
OnCatch(processed, repo) == processed

\* Lines 107-112, cloneRepo: git clone fails when the destination exists, and
\* may fail for any other reason; on success the directory exists.
CloneRepo(j) ==
  /\ Running(j)
  /\ bpc[j] = "loop"
  /\ bidx[j] <= Len(batch[j])
  /\ ~IsProcessed(Current(j), processedRepos)
  /\ \E ok \in Outcomes :
       IF ok /\ TempDir(Current(j)) \notin tmpdirs
       THEN /\ tmpdirs' = tmpdirs \cup {TempDir(Current(j))}
            /\ bpc' = [bpc EXCEPT ![j] = "cloned"]
            /\ caught' = [caught EXCEPT ![j] = "none"]
            /\ UNCHANGED <<processedRepos, faults>>
       ELSE /\ bpc' = [bpc EXCEPT ![j] = AfterThrow]
            /\ caught' = [caught EXCEPT ![j] = "git clone"]
            /\ processedRepos' = OnCatch(processedRepos, Current(j))
            /\ faults' = faults + Fault(ok)
            /\ UNCHANGED tmpdirs
  /\ lintCall' = NoCall
  /\ UNCHANGED pure
  /\ UNCHANGED <<catalogFile, processedFile, analysisFile, mainPc, unprocessedRepos,
                 i, allResults, batch, bidx, results, ui5Apps, appIdx, repoApps,
                 runs, loadedCheckpoint, analysisAtStart>>

\* Lines 114-123, findUI5Apps: reading the directory fails when it is gone,
\* and may fail for any other reason; otherwise the apps are found.
Discover(j) ==
  /\ Running(j)
  /\ bpc[j] = "cloned"
  /\ \E ok \in Outcomes :
       IF ok /\ TempDir(Current(j)) \in tmpdirs
       THEN /\ ui5Apps' = [ui5Apps EXCEPT ![j] =
                             findUI5Apps(RepoTree(Current(j).id), TempDir(Current(j)))]
            /\ appIdx' = [appIdx EXCEPT ![j] = 1]
            /\ repoApps' = [repoApps EXCEPT ![j] = <<>>]
            /\ bpc' = [bpc EXCEPT ![j] = "lint"]
            /\ UNCHANGED <<caught, processedRepos, faults>>
       ELSE /\ bpc' = [bpc EXCEPT ![j] = AfterThrow]
            /\ caught' = [caught EXCEPT ![j] = "readdir"]
            /\ processedRepos' = OnCatch(processedRepos, Current(j))
            /\ faults' = faults + Fault(ok)
            /\ UNCHANGED <<ui5Apps, appIdx, repoApps>>
  /\ lintCall' = NoCall
  /\ UNCHANGED pure
  /\ UNCHANGED <<durable, mainPc, unprocessedRepos, i, allResults, batch, bidx,
                 results, runs, loadedCheckpoint, analysisAtStart>>

\* Lines 125-137: one app is linted; a truthy result is recorded.
LintApp(j) ==
  /\ Running(j)
  /\ bpc[j] = "lint"
  /\ appIdx[j] <= Len(ui5Apps[j])
  /\ \E run \in (IF TempDir(Current(j)) \in tmpdirs THEN ToolRuns ELSE {SpawnFailure}) :
       LET out == runUI5Linter(run)
           appPath == ui5Apps[j][appIdx[j]]
       IN /\ lintCall' = [called |-> TRUE, run |-> run, out |-> out]
          /\ IF out.raised
             THEN /\ bpc' = [bpc EXCEPT ![j] = AfterThrow]
                  /\ caught' = [caught EXCEPT ![j] = "linter"]
                  /\ processedRepos' = OnCatch(processedRepos, Current(j))
                  /\ UNCHANGED <<appIdx, repoApps>>
             ELSE /\ appIdx' = [appIdx EXCEPT ![j] = @ + 1]
                  /\ repoApps' = [repoApps EXCEPT ![j] =
                       IF Truthy(out.value)
                       THEN Append(@, [appPath |-> Relative(TempDir(Current(j)), appPath),
                                       linterResult |-> out.value])
                       ELSE @]
                  /\ UNCHANGED <<bpc, caught, processedRepos>>
  /\ UNCHANGED <<durable, mainPc, unprocessedRepos, i, allResults, batch, bidx,
                 results, ui5Apps, history, pure>>

\* The Repository Result of lines 117-123 with the apps collected so far.
RepoResult(j) ==
  [repoMetadata |-> [id |-> Current(j).id, html_url |-> Current(j).html_url],
   apps |-> repoApps[j]]

\* A faulty variant: the result is recorded but the repository is not checkpointed.
CompleteWithoutCheckpoint(j) ==
  /\ Running(j)
  /\ bpc[j] = "lint"
  /\ appIdx[j] > Len(ui5Apps[j])
  /\ results' = [results EXCEPT ![j] = Append(@, RepoResult(j))]
  /\ bpc' = [bpc EXCEPT ![j] = "finally"]
  /\ lintCall' = NoCall
  /\ UNCHANGED pure
  /\ UNCHANGED <<durable, mainVars, batch, bidx, ui5Apps, appIdx, repoApps,
                 caught, history>>

\* Lines 139-140: the result is recorded and the repository checkpointed.
Complete(j) ==
  /\ Running(j)
  /\ bpc[j] = "lint"
  /\ appIdx[j] > Len(ui5Apps[j])
  /\ results' = [results EXCEPT ![j] = Append(@, RepoResult(j))]
  /\ processedRepos' = processedRepos \cup {RepoKey(Current(j))}
  /\ bpc' = [bpc EXCEPT ![j] = "finally"]
  /\ lintCall' = NoCall
  /\ UNCHANGED pure
  /\ UNCHANGED <<durable, mainPc, unprocessedRepos, i, allResults, batch, bidx,
                 ui5Apps, appIdx, repoApps, caught, history>>

\* A faulty variant: the directory is removed at the end of the try block only, so a
\* repository whose processing threw keeps it.
CleanupOnSuccessOnly(j) ==
  /\ Running(j)
  /\ bpc[j] = "finally"
  /\ tmpdirs' = (IF caught[j] # "none" THEN tmpdirs ELSE tmpdirs \ {TempDir(Current(j))})
  /\ bidx' = [bidx EXCEPT ![j] = @ + 1]
  /\ bpc' = [bpc EXCEPT ![j] = "loop"]
  /\ lintCall' = NoCall
  /\ UNCHANGED pure
  /\ UNCHANGED <<catalogFile, processedFile, analysisFile, mainVars, batch,
                 results, ui5Apps, appIdx, repoApps, caught, history>>

\* Lines 143-146: the temporary directory is removed, a missing one being
\* ignored (force); any other removal error rejects the whole batch.
Cleanup(j) ==
  /\ Running(j)
  /\ bpc[j] = "finally"
  /\ \E ok \in Outcomes :
       IF ok
       THEN /\ tmpdirs' = tmpdirs \ {TempDir(Current(j))}
            /\ bidx' = [bidx EXCEPT ![j] = @ + 1]
            /\ bpc' = [bpc EXCEPT ![j] = "loop"]
            /\ UNCHANGED faults
       ELSE /\ TempDir(Current(j)) \in tmpdirs
            /\ bpc' = [bpc EXCEPT ![j] = "rejected"]
            /\ faults' = faults + 1
            /\ UNCHANGED <<tmpdirs, bidx>>
  /\ lintCall' = NoCall
  /\ UNCHANGED pure
  /\ UNCHANGED <<catalogFile, processedFile, analysisFile, mainVars, batch,
                 results, ui5Apps, appIdx, repoApps, caught, runs,
                 loadedCheckpoint, analysisAtStart>>

----------------------------------------------------------------------------

Next ==
  \/ StartRun
  \/ Dispatch
  \/ LoopExit
  \/ PromiseAll
  \/ PromiseAllRejects
  \/ WriteResults
  \/ SaveProcessed
  \/ FinalWrite
  \/ FinalSave
  \/ AbortedExit
  \/ Crash
  \/ \E j \in Batches : BatchReturns(j)
  \/ \E j \in Batches : SkipProcessed(j)
  \/ \E j \in Batches : CloneRepo(j)
  \/ \E j \in Batches : Discover(j)
  \/ \E j \in Batches : LintApp(j)
  \/ \E j \in Batches : Complete(j)
  \/ \E j \in Batches : Cleanup(j)

Spec == Init /\ [][Next]_vars

----------------------------------------------------------------------------
(* findUI5Apps called on an arbitrary directory tree *)

MaxDepth == 2

scheduler == <<durable, mainVars, batchVars, history, lintCall>>

\* What a directory holds besides its subdirectories: ui5.yaml or not, and
\* no webapp, an empty webapp, or a webapp with manifest.json.
Markers ==
  {yaml \o webapp :
     yaml \in {<<>>, <<File("ui5.yaml")>>},
     webapp \in {<<>>, <<Dir("webapp", <<>>)>>,
                 <<Dir("webapp", <<File("manifest.json")>>)>>}}

RECURSIVE DirsNamed(_, _)
RECURSIVE Subdirs(_)

\* The subdirectories of a directory that has `depth` levels below it: up to
\* two below the root, up to one below any other directory.
Subdirs(depth) ==
  IF depth = 0 THEN {<<>>}
  ELSE IF depth = MaxDepth
  THEN {<<>>} \cup {<<a>> : a \in DirsNamed("a", depth - 1)}
         \cup {<<a, b>> : a \in DirsNamed("a", depth - 1),
                          b \in DirsNamed("b", depth - 1)}
  ELSE {<<>>} \cup {<<c>> : c \in DirsNamed("c", depth - 1)}

\* The directories called `name` with at most `depth` levels below them,
\* entries in the alphabetical order readdirSync lists them in.
DirsNamed(name, depth) ==
  {Dir(name, subs \o marks) : subs \in Subdirs(depth), marks \in Markers}

Trees == DirsNamed("", MaxDepth)

\* The path findUI5Apps is called with.
RootPath == <<"tmp", "ui5-project-1">>

InitFind ==
  /\ SchedulerInit(<<>>)
  /\ tree \in Trees
  /\ found = NotCalled
  /\ data = <<>>
  /\ report = NoReport
  /\ analyses = 0
  /\ DiscoveryIdle
  /\ CombinedIdle

\* const ui5Apps = findUI5Apps(tempDir)
FindApps ==
  /\ ~found.returned
  /\ found' = [returned |-> TRUE, apps |-> findUI5Apps(tree, RootPath),
                read |-> readdirCalls(tree, RootPath)]
  /\ UNCHANGED <<scheduler, tree, data, report, analyses, discovery, combined>>

NextFind == FindApps

SpecFind == InitFind /\ [][NextFind]_vars

----------------------------------------------------------------------------
(* processFilePair called on an arbitrary results file *)

MaxMsgs == 7
MaxNodes == 5
MaxAnalyses == 2

\* Rule identifiers of @ui5/linter, in the order the input introduces them.
RulePool ==
  <<"no-globals", "no-deprecated-api", "csp-unsafe-inline-script",
    "no-pseudo-modules", "async-component-flags", "no-deprecated-library",
    "no-ambiguous-event-handler">>

\* The linter reports a diagnostic of this rule with severity Error, which
\* its result's errorCount counts; the other rules' diagnostics are warnings.
IsError(ruleId) == ruleId # "csp-unsafe-inline-script"

RECURSIVE MessagesOfResults(_, _)
MessagesOfResults(linterResult, k) ==
  IF k > Len(linterResult) THEN <<>>
  ELSE linterResult[k].messages \o MessagesOfResults(linterResult, k + 1)

RECURSIVE MessagesOfApps(_, _)
MessagesOfApps(apps, k) ==
  IF k > Len(apps) THEN <<>>
  ELSE (IF Truthy(apps[k].linterResult)
        THEN MessagesOfResults(apps[k].linterResult.v, 1) ELSE <<>>)
         \o MessagesOfApps(apps, k + 1)

RECURSIVE MessagesOf(_, _)
\* Every diagnostic of the input file, in the order of the file.
MessagesOf(repos, k) ==
  IF k > Len(repos) THEN <<>>
  ELSE MessagesOfApps(repos[k].apps, 1) \o MessagesOf(repos, k + 1)

RulesOf(repos) == {m.ruleId : m \in Range(MessagesOf(repos, 1))}
TextsOf(repos) == {m.message : m \in Range(MessagesOf(repos, 1))}

\* The number of repositories, apps and results of the input file.
Nodes(repos) ==
  LET RECURSIVE AppNodes(_, _)
      AppNodes(apps, k) ==
        IF k > Len(apps) THEN 0
        ELSE 1 + Len(apps[k].linterResult.v) + AppNodes(apps, k + 1)
      RECURSIVE RepoNodes(_)
      RepoNodes(k) ==
        IF k > Len(repos) THEN 0
        ELSE 1 + AppNodes(repos[k].apps, 1) + RepoNodes(k + 1)
  IN RepoNodes(1)

\* The input file can still grow: no report has been computed from it.
Growing == ~report.written /\ ~report.threw

InitAgg ==
  /\ SchedulerInit(<<>>)
  /\ tree = Dir("", <<>>)
  /\ found = NotCalled
  /\ data = <<>>
  /\ report = NoReport
  /\ analyses = 0
  /\ DiscoveryIdle
  /\ CombinedIdle

\* The results file holds one more Repository Result (no app yet).
AddRepo ==
  /\ Growing
  /\ Nodes(data) < MaxNodes
  /\ data' = Append(data, [repoMetadata |-> Repo(Len(data) + 1), apps |-> <<>>])
  /\ UNCHANGED <<scheduler, tree, found, report, analyses, discovery, combined>>

\* The last Repository Result holds one more app (linted, no result yet).
AddApp ==
  /\ Growing
  /\ Nodes(data) < MaxNodes
  /\ Len(data) > 0
  /\ LET r == Len(data)
         app == [appPath |-> "app" \o ToString(Len(data[r].apps) + 1),
                 linterResult |-> JsonArray(<<>>)]
     IN data' = [data EXCEPT ![r].apps = Append(@, app)]
  /\ UNCHANGED <<scheduler, tree, found, report, analyses, discovery, combined>>

\* The last app's linter report holds one more result (one linted file).
AddResult ==
  /\ Growing
  /\ Nodes(data) < MaxNodes
  /\ Len(data) > 0
  /\ Len(data[Len(data)].apps) > 0
  /\ LET r == Len(data)
         a == Len(data[r].apps)
         result == [errorCount |-> 0, messages |-> <<>>]
     IN data' = [data EXCEPT ![r].apps[a].linterResult.v = Append(@, result)]
  /\ UNCHANGED <<scheduler, tree, found, report, analyses, discovery, combined>>

\* The last result holds one more diagnostic: of a rule seen before or of
\* the next rule of RulePool, with one of two texts for no-deprecated-api.
AddMessage ==
  /\ Growing
  /\ Len(MessagesOf(data, 1)) < MaxMsgs
  /\ Len(data) > 0
  /\ Len(data[Len(data)].apps) > 0
  /\ Len(data[Len(data)].apps[Len(data[Len(data)].apps)].linterResult.v) > 0
  /\ LET r == Len(data)
         a == Len(data[r].apps)
         f == Len(data[r].apps[a].linterResult.v)
         seen == Cardinality(RulesOf(data))
         rules == {RulePool[k] : k \in 1 .. IF seen < Len(RulePool) THEN seen + 1 ELSE seen}
     IN \E ruleId \in rules :
        \E text \in IF ruleId = "no-deprecated-api"
                    THEN IF "m1" \in TextsOf(data) THEN {"m1", "m2"} ELSE {"m1"}
                    ELSE {"m0"} :
          data' = [data EXCEPT
                     ![r].apps[a].linterResult.v[f] =
                        [errorCount |-> @.errorCount + (IF IsError(ruleId) THEN 1 ELSE 0),
                         messages |-> Append(@.messages,
                                             [ruleId |-> ruleId, message |-> text])]]
  /\ UNCHANGED <<scheduler, tree, found, report, analyses, discovery, combined>>

\* File names as their parts: prefix, version with underscores, extension.
\* The results file of linter version 1.2.3.
InputFile == <<"ui5-project-analysis", "1_2_3", "json">>

\* inputFile.match(/ui5-project-analysis_(.+)\.json/): the captured group.
VersionMatch(name) == name[2]

\* A faulty variant: the report goes to the file it was computed from.
OutputFileSameAsInput(version) == <<"ui5-project-analysis", version, "json">>

\* `linter-analysis-report_${versionMatch[1]}.json`
OutputFile(version) == <<"linter-analysis-report", version, "json">>

\* Lines 130-140 with processFilePair: the report is computed from the input
\* file and written to the output file.  Were that the input file, the file
\* would hold the report and no Repository Result any more.
RunAggregator ==
  /\ IF OutputFile(VersionMatch(InputFile)) = InputFile
     THEN data' = <<>> /\ report' = report
     ELSE data' = data /\ report' = processFilePair(data)
  /\ analyses' = analyses + 1
  /\ UNCHANGED <<scheduler, tree, found, discovery, combined>>

\* reports[version] = processFilePair(inputFile, outputFile)
Analyze ==
  /\ Growing
  /\ analyses < MaxAnalyses
  /\ RunAggregator

\* The script is run again over the unchanged input file.
AnalyzeAgain ==
  /\ report.written
  /\ analyses < MaxAnalyses
  /\ RunAggregator

NextAgg ==
  \/ AddRepo
  \/ AddApp
  \/ AddResult
  \/ AddMessage
  \/ Analyze
  \/ AnalyzeAgain

SpecAgg == InitAgg /\ [][NextAgg]_vars

----------------------------------------------------------------------------
(* searchUI5Repos.js: searchUI5Projects, getRepoMetadata and main *)

\* per_page and the limit main passes are 100 and 100000 in the source
\* (lines 31 and 79); they are scaled down here.
per_page == 2
limit == 3
MaxIds == 3
MaxSearchRuns == 2

JsonObject(v) == [t |-> "object", v |-> v]

\* A code search hit: a file of the repository with that identifier.
Hit(id) == [repository |-> [id |-> id, full_name |-> Repo(id).full_name]]

\* The identifiers of a sequence of repositories or of hits.
IdsOf(seq) == {seq[k].id : k \in DOMAIN seq}
HitIds(items) == {items[k].repository.id : k \in DOMAIN items}

Max(S) == IF S = {} THEN 0 ELSE CHOOSE x \in S : \A y \in S : y <= x

\* The pages the search API can answer with: up to per_page hits, the same
\* repository possibly more than once and possibly one of an earlier page;
\* a new identifier is the next unused one.
PagesAfter(seen) ==
  {pg \in UNION {[1 .. n -> 1 .. MaxIds] : n \in 0 .. per_page} :
     \A k \in DOMAIN pg :
        pg[k] <= 1 + Max(seen \cup {pg[j] : j \in 1 .. (k - 1)})}

\* What a page request can end in: an error, or a page of hits.
SearchResponses(seen) ==
  {[ok |-> FALSE, items |-> <<>>]}
    \cup {[ok |-> TRUE, items |-> [k \in DOMAIN pg |-> Hit(pg[k])]] : pg \in PagesAfter(seen)}

\* What octokit.repos.get can end in for a repository.
RepoResponses(id) ==
  {[ok |-> TRUE, data |-> Repo(id)], [ok |-> FALSE, data |-> Repo(id)]}

\* A faulty variant: the error of the request is passed on to the caller.
getRepoMetadataRethrows(response) ==
  IF response.ok THEN Returned(JsonObject(response.data)) ELSE Raised

\* getRepoMetadata: the repository's data, or null when the request failed.
getRepoMetadata(response) ==
  IF response.ok THEN Returned(JsonObject(response.data)) ELSE Returned(JsonNull)

\* loadExistingRepos: the catalog, a missing file being the empty catalog.
loadExistingRepos == catalogFile

\* new Set(existingRepos.map(repo => repo.id))
existingRepoIds == IdsOf(existingRepos)

\* The memory of a run of searchUI5Repos.js that has ended.
SearchMemoryGone ==
  /\ page' = 1
  /\ allItems' = <<>>
  /\ searchResult' = <<>>
  /\ existingRepos' = <<>>
  /\ reposWithMetadata' = <<>>
  /\ cursor' = 1

others == <<scheduler, tree, found, data, report, analyses, combined>>

\* Lines 75-79 and 21-25: main calls searchUI5Projects(limit).
StartSearch ==
  /\ searchPc = "idle"
  /\ searchRuns < MaxSearchRuns
  /\ searchRuns' = searchRuns + 1
  /\ searchPc' = "search"
  /\ page' = 1
  /\ allItems' = <<>>
  /\ fetches' = <<>>
  /\ UNCHANGED <<catalogFile, searchResult, existingRepos, reposWithMetadata, cursor>>
  /\ UNCHANGED <<processedFile, analysisFile, tmpdirs, mainVars, batchVars, history,
                 lintCall, tree, found, data, report, analyses, combined>>

\* Lines 28-43: one iteration of the while loop: a page is requested; an
\* error or an empty page ends the loop, hits are appended.
RequestPage ==
  /\ searchPc = "search"
  /\ Len(allItems) < limit
  /\ \E response \in SearchResponses(IdsOf(catalogFile) \cup HitIds(allItems)) :
       IF response.ok /\ Len(response.items) # 0
       THEN /\ allItems' = allItems \o response.items
            /\ page' = page + 1
            /\ UNCHANGED searchPc
       ELSE /\ searchPc' = "searched"
            /\ UNCHANGED <<allItems, page>>
  /\ UNCHANGED <<searchResult, existingRepos, reposWithMetadata, cursor,
                 searchRuns, fetches, others>>

\* Line 28: the loop ends because the limit is reached.
LimitReached ==
  /\ searchPc = "search"
  /\ Len(allItems) >= limit
  /\ searchPc' = "searched"
  /\ UNCHANGED <<page, allItems, searchResult, existingRepos, reposWithMetadata,
                 cursor, searchRuns, fetches, others>>

\* A faulty variant: every accumulated hit is returned.
SearchReturnsAll ==
  /\ searchPc = "searched"
  /\ searchResult' = allItems
  /\ existingRepos' = loadExistingRepos
  /\ reposWithMetadata' = <<>>
  /\ cursor' = 1
  /\ searchPc' = "enrich"
  /\ UNCHANGED <<page, allItems, searchRuns, fetches, others>>

\* Lines 45-46 and 79-87: searchUI5Projects returns the first `limit` hits;
\* main loads the catalog.
SearchReturns ==
  /\ searchPc = "searched"
  /\ searchResult' = Slice(allItems, 0, limit)
  /\ existingRepos' = loadExistingRepos
  /\ reposWithMetadata' = <<>>
  /\ cursor' = 1
  /\ searchPc' = "enrich"
  /\ UNCHANGED <<page, allItems, searchRuns, fetches, others>>

\* Lines 90-91, 99-102: a hit of a repository of the loaded catalog is skipped.
SkipExisting ==
  /\ searchPc = "enrich"
  /\ cursor <= Len(searchResult)
  /\ searchResult[cursor].repository.id \in existingRepoIds
  /\ cursor' = cursor + 1
  /\ UNCHANGED <<searchPc, page, allItems, searchResult, existingRepos,
                 reposWithMetadata, searchRuns, fetches, others>>

\* Lines 90-98: the metadata of another hit's repository is requested and,
\* when there is any, appended.  An error getRepoMetadata let through would
\* end main.
FetchMetadata ==
  /\ searchPc = "enrich"
  /\ cursor <= Len(searchResult)
  /\ searchResult[cursor].repository.id \notin existingRepoIds
  /\ \E response \in RepoResponses(searchResult[cursor].repository.id) :
       LET metadata == getRepoMetadata(response)
       IN /\ fetches' = Append(fetches, [id |-> searchResult[cursor].repository.id,
                                         ok |-> response.ok])
          /\ IF metadata.raised
             THEN /\ searchPc' = "idle"
                  /\ SearchMemoryGone
             ELSE /\ reposWithMetadata' =
                       IF Truthy(metadata.value)
                       THEN Append(reposWithMetadata, metadata.value.v)
                       ELSE reposWithMetadata
                  /\ cursor' = cursor + 1
                  /\ UNCHANGED <<searchPc, page, allItems, searchResult, existingRepos>>
  /\ UNCHANGED <<searchRuns, others>>

\* Lines 105-110: the catalog is written: the loaded one, then the new entries.
WriteCatalog ==
  /\ searchPc = "enrich"
  /\ cursor > Len(searchResult)
  /\ catalogFile' = existingRepos \o reposWithMetadata
  /\ searchPc' = "idle"
  /\ SearchMemoryGone
  /\ UNCHANGED <<searchRuns, fetches>>
  /\ UNCHANGED <<processedFile, analysisFile, tmpdirs, mainVars, batchVars, history,
                 lintCall, tree, found, data, report, analyses, combined>>

InitSearch ==
  /\ SchedulerInit(<<>>)
  /\ PureIdle

NextSearch ==
  \/ StartSearch
  \/ RequestPage
  \/ LimitReached
  \/ SearchReturns
  \/ SkipExisting
  \/ FetchMetadata
  \/ WriteCatalog

SpecSearch == InitSearch /\ [][NextSearch]_vars

\* Every request is answered and every step of the script is taken in time.
SpecSearchFair == SpecSearch /\ WF_vars(NextSearch)

----------------------------------------------------------------------------
(* searchGitHub.js: processBatch, which fetches the metadata itself *)

\* The batches processBatch can be called on: up to batchSize hits, the same
\* repository possibly more than once.
HitBatches ==
  UNION {[1 .. n -> {Hit(id) : id \in 1 .. MaxIds}] : n \in 0 .. batchSize}

\* The sets processedRepos can be when processBatch is called.
ProcessedSets == SUBSET {ToString(id) : id \in 1 .. MaxIds}

\* The hit processBatch is working on.
GhCurrent == ghRepos[ghIdx].repository

\* Everything a step of processBatch leaves alone besides its own state and
\* the temporary directories.
rest == <<catalogFile, processedFile, analysisFile, mainVars, batchVars, history,
          lintCall, tree, found, data, report, analyses, discovery>>

\* The locals of one iteration of the loop, gone when it ends.
GhLocalsGone ==
  /\ repoMetadata' = JsonUndefined
  /\ ghUi5Apps' = <<>>
  /\ ghAppIdx' = 1
  /\ repoResult' = NoRepoResult

\* Lines 132-133: processBatch is called on a batch and the shared set.
GhCall ==
  /\ ghPc = "idle"
  /\ \E repos \in HitBatches : ghRepos' = repos
  /\ \E processed \in ProcessedSets : ghProcessed' = processed
  /\ ghPc' = "loop"
  /\ ghIdx' = 1
  /\ ghResults' = <<>>
  /\ UNCHANGED <<repoMetadata, ghUi5Apps, ghAppIdx, repoResult, tmpdirs, rest>>

\* Lines 135, 183: the loop is over, the batch returns its results.
GhReturns ==
  /\ ghPc = "loop"
  /\ ghIdx > Len(ghRepos)
  /\ ghPc' = "done"
  /\ UNCHANGED <<ghRepos, ghIdx, ghProcessed, ghResults, repoMetadata, ghUi5Apps,
                 ghAppIdx, repoResult, tmpdirs, rest>>

\* Lines 136-139: a repository already in processedRepos is skipped.
GhSkipProcessed ==
  /\ ghPc = "loop"
  /\ ghIdx <= Len(ghRepos)
  /\ IsProcessed(GhCurrent, ghProcessed)
  /\ ghIdx' = ghIdx + 1
  /\ UNCHANGED <<ghPc, ghRepos, ghProcessed, ghResults, repoMetadata, ghUi5Apps,
                 ghAppIdx, repoResult, tmpdirs, rest>>

\* Lines 144-146: the metadata is fetched; what getRepoMetadata returns,
\* null included, is kept, and an error it let through would be caught.
GhFetchMetadata ==
  /\ ghPc = "loop"
  /\ ghIdx <= Len(ghRepos)
  /\ ~IsProcessed(GhCurrent, ghProcessed)
  /\ \E response \in RepoResponses(GhCurrent.id) :
       LET metadata == getRepoMetadata(response)
       IN IF metadata.raised
          THEN /\ ghPc' = "finally"
               /\ UNCHANGED repoMetadata
          ELSE /\ ghPc' = "fetched"
               /\ repoMetadata' = metadata.value
  /\ UNCHANGED <<ghRepos, ghIdx, ghProcessed, ghResults, ghUi5Apps, ghAppIdx,
                 repoResult, tmpdirs, rest>>

\* Lines 148-149, cloneRepo: git clone fails when the destination exists, and
\* may fail for any other reason; on success the directory exists.
GhCloneRepo ==
  /\ ghPc = "fetched"
  /\ \E ok \in BOOLEAN :
       IF ok /\ TempDir(GhCurrent) \notin tmpdirs
       THEN /\ tmpdirs' = tmpdirs \cup {TempDir(GhCurrent)}
            /\ ghPc' = "cloned"
       ELSE /\ ghPc' = "finally"
            /\ UNCHANGED tmpdirs
  /\ UNCHANGED <<ghRepos, ghIdx, ghProcessed, ghResults, repoMetadata, ghUi5Apps,
                 ghAppIdx, repoResult, rest>>

\* Lines 151-157, findUI5Apps: reading the directory may fail; otherwise the
\* apps are found and the result object is created around the metadata.
GhDiscover ==
  /\ ghPc = "cloned"
  /\ \E ok \in BOOLEAN :
       IF ok
       THEN /\ ghUi5Apps' = findUI5Apps(RepoTree(GhCurrent.id), TempDir(GhCurrent))
            /\ ghAppIdx' = 1
            /\ repoResult' = [repoMetadata |-> repoMetadata, apps |-> <<>>]
            /\ ghPc' = "lint"
       ELSE /\ ghPc' = "finally"
            /\ UNCHANGED <<ghUi5Apps, ghAppIdx, repoResult>>
  /\ UNCHANGED <<ghRepos, ghIdx, ghProcessed, ghResults, repoMetadata, tmpdirs, rest>>

\* Lines 159-171: one app is linted; a truthy result is recorded.
GhLintApp ==
  /\ ghPc = "lint"
  /\ ghAppIdx <= Len(ghUi5Apps)
  /\ \E run \in ToolRuns :
       LET out == runUI5Linter(run)
           appPath == ghUi5Apps[ghAppIdx]
       IN IF out.raised
          THEN /\ ghPc' = "finally"
               /\ UNCHANGED <<ghAppIdx, repoResult>>
          ELSE /\ ghAppIdx' = ghAppIdx + 1
               /\ repoResult' =
                    IF Truthy(out.value)
                    THEN [repoResult EXCEPT !.apps =
                            Append(@, [appPath |-> Relative(TempDir(GhCurrent), appPath),
                                       linterResult |-> out.value])]
                    ELSE repoResult
               /\ UNCHANGED ghPc
  /\ UNCHANGED <<ghRepos, ghIdx, ghProcessed, ghResults, repoMetadata, ghUi5Apps,
                 tmpdirs, rest>>

\* Lines 173-174: the result is recorded and the repository checkpointed.
GhComplete ==
  /\ ghPc = "lint"
  /\ ghAppIdx > Len(ghUi5Apps)
  /\ ghResults' = Append(ghResults, repoResult)
  /\ ghProcessed' = ghProcessed \cup {RepoKey(GhCurrent)}
  /\ ghPc' = "finally"
  /\ UNCHANGED <<ghRepos, ghIdx, repoMetadata, ghUi5Apps, ghAppIdx, repoResult,
                 tmpdirs, rest>>

\* Lines 175-180: the catch block only logs; the temporary directory is
\* removed, a missing one being ignored (force); any other removal error
\* rejects the batch.
GhCleanup ==
  /\ ghPc = "finally"
  /\ \E ok \in BOOLEAN :
       IF ok \/ TempDir(GhCurrent) \notin tmpdirs
       THEN /\ tmpdirs' = tmpdirs \ {TempDir(GhCurrent)}
            /\ ghIdx' = ghIdx + 1
            /\ ghPc' = "loop"
            /\ GhLocalsGone
       ELSE /\ ghPc' = "rejected"
            /\ UNCHANGED <<tmpdirs, ghIdx, repoMetadata, ghUi5Apps, ghAppIdx, repoResult>>
  /\ UNCHANGED <<ghRepos, ghProcessed, ghResults, rest>>

InitGitHub ==
  /\ SchedulerInit(<<>>)
  /\ PureIdle

NextGitHub ==
  \/ GhCall
  \/ GhReturns
  \/ GhSkipProcessed
  \/ GhFetchMetadata
  \/ GhCloneRepo
  \/ GhDiscover
  \/ GhLintApp
  \/ GhComplete
  \/ GhCleanup

SpecGitHub == InitGitHub /\ [][NextGitHub]_vars

----------------------------------------------------------------------------
(* Claims about the batch scheduler *)

\* The batches that are between the skip test and the end of the cleanup.
InFlight(j) == bpc[j] \in {"cloned", "lint", "finally", "rejected"}

\* The identifiers, as checkpoint keys, that have a Repository Result in rs.
ResultKeys(rs) == {ToString(rs[k].repoMetadata.id) : k \in DOMAIN rs}

\* The keys of the results this run has recorded so far.
RecordedKeys ==
  ResultKeys(allResults) \cup UNION {ResultKeys(results[j]) : j \in Batches}

\* C1: a run never clones, scans or lints a repository whose identifier was
\* in the checkpoint file when the run started.
C1_NoReprocessing ==
  \A j \in Batches : InFlight(j) => ToString(Current(j).id) \notin loadedCheckpoint

C1_Witness ==
  /\ loadedCheckpoint # {}
  /\ \E k \in DOMAIN catalogFile : ToString(catalogFile[k].id) \in loadedCheckpoint
  /\ \E j \in Batches : bpc[j] = "lint"

Persisted(file) == IF file.exists THEN file.data ELSE <<>>

\* At most one super-batch of completed work is missing from the checkpoint file.
LossBounded ==
  Cardinality(processedRepos \ loadProcessedRepos(processedFile))
    <= batchSize * numBatches

\* A rerun skips exactly the identifiers of the checkpoint file.
RerunSkipsCheckpointed ==
  (mainPc = "loop" /\ i = 0) =>
     \A k \in DOMAIN catalogFile :
        (ToString(catalogFile[k].id) \in loadedCheckpoint)
          <=> (catalogFile[k] \notin Range(unprocessedRepos))

\* Every Repository Result of the results file is still in it after the step.
PersistedWorkKept ==
  \A k \in DOMAIN Persisted(analysisFile) :
     Persisted(analysisFile)[k] \in Range(Persisted(analysisFile'))

\* C3: at every point of a run at most one super-batch of completed
\* repositories is missing from the checkpoint file, a rerun skips exactly
\* the checkpointed identifiers, and no step of a run or rerun removes a
\* Repository Result that was durably in the results file.
C3_CrashSafe ==
  /\ [](LossBounded /\ RerunSkipsCheckpointed)
  /\ [][PersistedWorkKept]_vars

\* The two parts of C3 the code does satisfy.
C3_BoundAndSkip == LossBounded /\ RerunSkipsCheckpointed

\* Batch j enters the catch block in this step.
Throws(j) ==
  /\ bpc[j] \in {"loop", "cloned", "lint"}
  /\ bpc'[j] = "finally"
  /\ caught'[j] # "none"

\* Batch j leaves the try block normally in this step.
Completes(j) == bpc[j] = "lint" /\ bpc'[j] = "finally" /\ caught'[j] = "none"

\* C4: a repository whose processing throws is not checkpointed and gets no
\* Repository Result, and a later run takes every catalog entry that is not
\* checkpointed; a repository that completes is checkpointed and gets one
\* Repository Result, whose apps list is empty when no sub-project was found
\* and does not grow when a lint call returns the absence marker.
C4_ThrowVersusEmpty ==
  /\ [][\A j \in Batches :
          /\ Throws(j) =>
               /\ processedRepos' = processedRepos
               /\ results' = results
               /\ allResults' = allResults
          /\ (/\ bpc[j] = "finally"
              /\ caught[j] # "none"
              /\ bpc'[j] \in {"loop", "rejected"}) =>
               /\ processedRepos' = processedRepos
               /\ results' = results
               /\ allResults' = allResults
          /\ Completes(j) =>
               /\ ToString(Current(j).id) \in processedRepos'
               /\ Len(results'[j]) = Len(results[j]) + 1
               /\ results'[j][Len(results'[j])].repoMetadata.id = Current(j).id
               /\ (ui5Apps[j] = <<>> => results'[j][Len(results'[j])].apps = <<>>)
          /\ (bpc[j] = "lint" /\ lintCall'.called /\ lintCall'.out.value = JsonNull) =>
               repoApps'[j] = repoApps[j]]_vars
  /\ [](mainPc = "loop" /\ i = 0 =>
          \A k \in DOMAIN catalogFile :
             ToString(catalogFile[k].id) \notin loadProcessedRepos(processedFile)
               => catalogFile[k] \in Range(unprocessedRepos))

\* One repository has been caught and cleaned up and is not checkpointed, and
\* another has completed with an empty apps list and is.
C4_Witness ==
  \E j \in Batches :
     /\ bpc[j] = "loop"
     /\ bidx[j] > 1
     /\ caught[j] = "readdir"
     /\ ToString(batch[j][bidx[j] - 1].id) \notin processedRepos
     /\ \E j2 \in Batches : \E k \in DOMAIN results[j2] :
          /\ results[j2][k].apps = <<>>
          /\ ToString(results[j2][k].repoMetadata.id) \in processedRepos

\* C5 as stated: when a run is about to save its final checkpoint, every
\* repository it attempted, successfully or with a caught failure, is in the
\* Checkpoint Set.
C5_CaughtFailureCheckpointed ==
  mainPc = "finalSave" =>
     \A k \in DOMAIN unprocessedRepos :
        ToString(unprocessedRepos[k].id) \in processedRepos

\* C5 amended: the Checkpoint Set of a run holds exactly the identifiers that
\* were in the checkpoint file when the run started and those whose
\* processing completed without throwing in this run, that is those for which
\* the run recorded a Repository Result; the checkpoint file only ever
\* receives that set.
C5_CheckpointIffCompleted ==
  /\ [](mainPc # "idle" => processedRepos = loadedCheckpoint \cup RecordedKeys)
  /\ [][processedFile' # processedFile => processedFile' = FileOf(processedRepos)]_vars

\* A run is about to finish with one attempted repository checkpointed and
\* another, whose attempt was caught, not checkpointed.
C5_Witness ==
  /\ mainPc = "finalSave"
  /\ \E k \in DOMAIN unprocessedRepos :
        ToString(unprocessedRepos[k].id) \notin processedRepos
  /\ \E k \in DOMAIN unprocessedRepos :
        ToString(unprocessedRepos[k].id) \in processedRepos \ loadedCheckpoint

\* C6: whenever batch j is done with a repository it had started on (it moves
\* on to the next one, the removal not having raised), that repository's
\* temporary directory does not exist, whether the try block completed or
\* clone, discovery or linting threw.
C6_TempDirRemoved ==
  [][\A j \in Batches :
       (bpc[j] \in {"cloned", "lint", "finally"} /\ bpc'[j] \in {"loop", "done"})
         => TempDir(Current(j)) \notin tmpdirs']_vars

\* Batch j has moved past a repository whose clone succeeded and whose
\* processing then threw, and the directory is gone.
C6_Witness ==
  \E j \in Batches :
     /\ bpc[j] = "loop"
     /\ bidx[j] > 1
     /\ caught[j] = "readdir"
     /\ faults > 0
     /\ TempDir(batch[j][bidx[j] - 1]) \notin tmpdirs

\* C7: runUI5Linter never raises; it returns the parsed data when the tool
\* exits zero with parseable output or exits nonzero with parseable captured
\* output, and the absence marker when a failed tool run captured no output
\* or the output does not parse.
C7_LintRunner ==
  lintCall.called =>
     LET run == lintCall.run
         out == lintCall.out
         parsed == JSONParse(run.stdout)
     IN /\ ~out.raised
        /\ (run.status = "exit0" /\ ~parsed.threw) => out.value = parsed.val
        /\ (run.status = "nonzero" /\ run.stdout # "" /\ ~parsed.threw)
             => out.value = parsed.val
        /\ (run.status # "exit0" /\ run.stdout = "") => out.value = JsonNull
        /\ parsed.threw => out.value = JsonNull

\* The tool exited nonzero and its report was returned.
C7_Witness ==
  /\ lintCall.called
  /\ lintCall.run.status = "nonzero"
  /\ lintCall.out.value = JsonArray(<<LintFinding>>)

\* C8: when a run finishes, the results file holds the Repository Results it
\* held before the run followed by those the run produced.
C8_ResultsConcatenated ==
  mainPc = "finalSave" => Persisted(analysisFile) = analysisAtStart \o allResults

\* A run is about to finish on a results file that held Repository Results
\* when it started, and the file no longer holds them.
C8_PreviousResultsGone ==
  /\ mainPc = "finalSave"
  /\ analysisAtStart # <<>>
  /\ \E k \in DOMAIN analysisAtStart :
        analysisAtStart[k] \notin Range(Persisted(analysisFile))

----------------------------------------------------------------------------
(* Claims about findUI5Apps *)

RECURSIVE DirsBelow(_, _, _)
\* The directories among the entries k.. of dir, and all those below them,
\* each with its path.
DirsBelow(dir, dirPath, k) ==
  IF k > Len(dir.children) THEN {}
  ELSE LET item == dir.children[k]
           fullPath == Append(dirPath, item.name)
       IN (IF item.isDir
           THEN {[path |-> fullPath, dir |-> item]} \cup DirsBelow(item, fullPath, 1)
           ELSE {})
            \cup DirsBelow(dir, dirPath, k + 1)

\* Every directory of the tree: its root and all directories below it.
DirsOfTree == {[path |-> RootPath, dir |-> tree]} \cup DirsBelow(tree, RootPath, 1)

\* The paths of the directories of the tree that pass the structural test.
Qualifying == {d.path : d \in {e \in DirsOfTree : IsUI5App(e.dir)}}

Occurrences(seq, x) == Cardinality({k \in DOMAIN seq : seq[k] = x})

\* C9: the sequence findUI5Apps returns holds every directory of the tree
\* that has ui5.yaml and a webapp directory with manifest.json exactly once,
\* and is empty when the tree has no such directory.
C9_EveryQualifyingOnce ==
  found.returned =>
     /\ \A p \in Qualifying : Occurrences(found.apps, p) = 1
     /\ (Qualifying = {} => found.apps = <<>>)

\* What findUI5Apps does return: qualifying directories only, none twice,
\* and nothing when the tree has no qualifying directory.
C9_OnlyQualifyingOnce ==
  found.returned =>
     /\ \A k \in DOMAIN found.apps :
          found.apps[k] \in Qualifying /\ Occurrences(found.apps, found.apps[k]) = 1
     /\ (Qualifying = {} => found.apps = <<>>)

\* The root of the tree qualifies and findUI5Apps has returned without it.
C9_RootMissed ==
  /\ found.returned
  /\ IsUI5App(tree)
  /\ RootPath \notin Range(found.apps)

----------------------------------------------------------------------------
(* Claims about processFilePair *)

\* The position in the input of the first diagnostic of a rule.
FirstSeen(ruleId) ==
  LET msgs == MessagesOf(data, 1)
  IN CHOOSE k \in DOMAIN msgs :
       /\ msgs[k].ruleId = ruleId
       /\ \A l \in 1 .. (k - 1) : msgs[l].ruleId # ruleId

\* The number of diagnostics of a rule in the input.
CountOf(ruleId) ==
  LET msgs == MessagesOf(data, 1)
  IN Cardinality({k \in DOMAIN msgs : msgs[k].ruleId = ruleId})

\* C10: allRuleViolations holds every rule of the input once with its count,
\* in descending order of count, rules of equal count in the order in which
\* the input first mentions them; topRuleViolations is its first 5 entries,
\* or all of them when there are fewer.
C10_RankedAndTruncated ==
  report.written =>
     LET all == report.allRuleViolations
         top == report.topRuleViolations
     IN /\ Len(all) = Cardinality(RulesOf(data))
        /\ \A k \in DOMAIN all :
             all[k].key \in RulesOf(data) /\ all[k].count = CountOf(all[k].key)
        /\ \A k, l \in DOMAIN all :
             k < l =>
               \/ all[k].count > all[l].count
               \/ /\ all[k].count = all[l].count
                  /\ FirstSeen(all[k].key) < FirstSeen(all[l].key)
        /\ top = SubSeq(all, 1, IF Len(all) < 5 THEN Len(all) ELSE 5)

\* A report over more than 5 rules, some of equal count, in which the sort
\* moved a rule in front of one the input mentions earlier.
C10_Witness ==
  /\ report.written
  /\ LET all == report.allRuleViolations
     IN /\ Len(all) > 5
        /\ Len(report.topRuleViolations) = 5
        /\ \E k \in 1 .. (Len(all) - 1) : all[k].count = all[k + 1].count
        /\ \E k, l \in DOMAIN all :
             k < l /\ FirstSeen(all[k].key) > FirstSeen(all[l].key)

\* The positions of the apps, results and diagnostics of the input file.
AppSlots ==
  UNION {{<<r, a>> : a \in DOMAIN data[r].apps} : r \in DOMAIN data}

ResultSlots ==
  UNION {{<<s[1], s[2], f>> : f \in DOMAIN data[s[1]].apps[s[2]].linterResult.v} :
           s \in AppSlots}

ResultAt(s) == data[s[1]].apps[s[2]].linterResult.v[s[3]]

MessageSlots ==
  UNION {{<<s[1], s[2], s[3], m>> : m \in DOMAIN ResultAt(s).messages} :
           s \in ResultSlots}

MessageAt(s) == ResultAt(s).messages[s[4]]

RECURSIVE SumErrorCount(_)
\* The sum of the errorCount of the results at a set of positions.
SumErrorCount(slots) ==
  IF slots = {} THEN 0
  ELSE LET s == CHOOSE x \in slots : TRUE
       IN ResultAt(s).errorCount + SumErrorCount(slots \ {s})

\* The texts of the diagnostics of rule no-deprecated-api.
DeprecatedTexts ==
  {MessageAt(s).message :
     s \in {x \in MessageSlots : MessageAt(x).ruleId = "no-deprecated-api"}}

\* C11: totalApps is the number of app entries of all repositories,
\* totalLinterErrors the sum of the errorCount of the results that have
\* diagnostics, and deprecatedApiMessages has one entry per distinct text of
\* a no-deprecated-api diagnostic, with the number of such diagnostics of
\* that exact text; a repository without apps adds nothing to the three.
C11_TotalsAndDeprecated ==
  report.written =>
     LET dep == report.deprecatedApiMessages
     IN /\ report.totalApps = Cardinality(AppSlots)
        /\ report.totalLinterErrors =
             SumErrorCount({s \in ResultSlots : Len(ResultAt(s).messages) > 0})
        /\ {dep[k].key : k \in DOMAIN dep} = DeprecatedTexts
        /\ Len(dep) = Cardinality(DeprecatedTexts)
        /\ \A k \in DOMAIN dep :
             dep[k].count =
               Cardinality({s \in MessageSlots :
                              /\ MessageAt(s).ruleId = "no-deprecated-api"
                              /\ MessageAt(s).message = dep[k].key})

\* A report over a repository without apps and one with two apps, with a
\* deprecated-API text seen twice, a diagnostic of another rule, and a
\* warning that no errorCount counts.
C11_Witness ==
  /\ report.written
  /\ \E r \in DOMAIN data : data[r].apps = <<>>
  /\ report.totalApps = 2
  /\ \E k \in DOMAIN report.deprecatedApiMessages :
        report.deprecatedApiMessages[k].count = 2
  /\ \E s \in MessageSlots : MessageAt(s).ruleId = "no-globals"
  /\ report.totalLinterErrors > 0
  /\ report.totalLinterErrors < Cardinality(MessageSlots)

----------------------------------------------------------------------------
(* Further claims about the batch scheduler *)

\* The identifiers the checkpoint file holds, a missing file holding none.
CheckpointOnDisk == IF processedFile.exists THEN processedFile.data ELSE {}

----------------------------------------------------------------------------
(* Claims about searchUI5Repos.js *)

IsPrefix(a, b) == Len(a) <= Len(b) /\ SubSeq(b, 1, Len(a)) = a

\* No identifier is the id of two entries of the catalog.
CatalogKeyed ==
  \A k, l \in DOMAIN catalogFile :
     catalogFile[k].id = catalogFile[l].id => k = l

\* A step leaves the catalog's entries in place, possibly adding some.
CatalogAppended == IsPrefix(catalogFile, catalogFile')

\* No metadata was fetched in this run for an identifier of the catalog.
NoFetchForCatalogued ==
  searchPc = "enrich" =>
     \A k \in DOMAIN fetches : fetches[k].id \notin IdsOf(catalogFile)

\* C14: every discovery run leaves the previous catalog as a prefix of the
\* new one, no identifier occurs twice in the catalog, and no metadata is
\* fetched for an identifier the catalog already holds.
C14_AppendOnlyKeyed ==
  /\ [][CatalogAppended]_vars
  /\ [](CatalogKeyed /\ NoFetchForCatalogued)

\* The parts of C14 the code does satisfy.
C14_AppendOnlySkipsCatalogued ==
  /\ [][CatalogAppended]_vars
  /\ []NoFetchForCatalogued

\* A discovery run has written a catalog that holds one identifier twice,
\* having fetched its metadata twice.
C14_DuplicateEntry ==
  /\ searchPc = "idle"
  /\ ~CatalogKeyed
  /\ \E k, l \in DOMAIN fetches :
        k # l /\ fetches[k].id = fetches[l].id /\ fetches[k].ok /\ fetches[l].ok

\* The cap of searchUI5Projects holds for what it returned.
AtMostLimit == searchPc = "enrich" => Len(searchResult) <= limit

\* The page counter is one more than the number of non-empty pages received.
PagesInOrder ==
  /\ searchPc' = "search" /\ searchPc # "search" => page' = 1
  /\ searchPc = "search" /\ allItems' # allItems => page' = page + 1
  /\ searchPc = "search" /\ allItems' = allItems => page' = page

\* No page is requested once the cap is reached or the loop was left.
StopsRequesting ==
  (searchPc # "search" \/ Len(allItems) >= limit)
     => (allItems' = allItems \/ allItems' = <<>>)

\* What is returned is what was accumulated, cut at the cap.
ReturnsAccumulated ==
  (searchPc = "searched" /\ searchPc' = "enrich") =>
     /\ IsPrefix(searchResult', allItems)
     /\ Len(searchResult') = (IF Len(allItems) < limit THEN Len(allItems) ELSE limit)

\* C15: searchUI5Projects requests the pages in order, requests none once
\* the cap is reached, a page was empty or a request failed, then returns
\* without raising what it accumulated, at most `limit` hits; and it always
\* returns.
C15_SearchTerminatesWithinCap ==
  /\ []AtMostLimit
  /\ [][PagesInOrder /\ StopsRequesting /\ ReturnsAccumulated]_vars
  /\ (searchPc = "search" ~> searchPc = "enrich")

\* Two pages took the accumulated hits over the cap, and the first `limit`
\* of them were returned.
C15_Witness ==
  /\ searchPc = "enrich"
  /\ page = 3
  /\ Len(allItems) > limit
  /\ Len(searchResult) = limit

----------------------------------------------------------------------------
(* Claims about failures, ordering and sharing in the batch scheduler *)

\* C16: no failure while one repository is processed (clone, discovery,
\* lint, or the removal of its temporary directory) aborts its batch or the
\* super-batch: no batch ever rejects and main never gives up the loop.
C16_FailuresContained ==
  /\ mainPc # "aborted"
  /\ \A j \in Batches : bpc[j] # "rejected"

\* What the code does contain: a batch rejects only where the removal of the
\* temporary directory failed, main gives up only after a batch rejected, and
\* a batch that caught a failure of clone, discovery or lint goes on.
C16_OnlyRemovalAborts ==
  /\ [][\A j \in Batches :
          (bpc[j] # "rejected" /\ bpc'[j] = "rejected")
            => bpc[j] = "finally" /\ TempDir(Current(j)) \in tmpdirs']_vars
  /\ [][(mainPc # "aborted" /\ mainPc' = "aborted")
          => \E j \in Batches : bpc[j] = "rejected"]_vars
  /\ [][\A j \in Batches : Throws(j) => bpc'[j] = "finally"]_vars
  /\ [][\A j \in Batches :
          (bpc[j] = "finally" /\ bpc'[j] # "finally")
            => \/ bpc'[j] = "loop" /\ bidx'[j] = bidx[j] + 1
               \/ bpc'[j] = "rejected"
               \/ mainPc' = "idle"]_vars

\* main has given up a super-batch after a removal error, while another
\* repository of the super-batch had completed and its result is in no file.
C16_RemovalErrorAborts ==
  /\ mainPc = "aborted"
  /\ \E j \in Batches : bpc[j] = "rejected"
  /\ \E j \in Batches : \E k \in DOMAIN results[j] :
        results[j][k] \notin Range(Persisted(analysisFile))

\* The steps of batch j on its current repository come in order: clone,
\* then discovery, then the lint calls one by one in discovery order, then
\* the end of the try block or a throw, then the removal.
OwnStepsOrdered(j) ==
  /\ (bpc[j] # "cloned" /\ bpc'[j] = "cloned") => bpc[j] = "loop"
  /\ (bpc[j] # "lint" /\ bpc'[j] = "lint") =>
        /\ bpc[j] = "cloned"
        /\ appIdx'[j] = 1
        /\ repoApps'[j] = <<>>
  /\ (bpc[j] = "lint" /\ bpc'[j] = "lint" /\ appIdx'[j] # appIdx[j]) =>
        /\ appIdx'[j] = appIdx[j] + 1
        /\ lintCall'.called
        /\ ui5Apps'[j] = ui5Apps[j]
  /\ Completes(j) => appIdx[j] > Len(ui5Apps[j])
  /\ (bpc[j] = "finally" /\ bpc'[j] = "loop") =>
        /\ bidx'[j] = bidx[j] + 1
        /\ TempDir(Current(j)) \notin tmpdirs'

\* While batch j is between its clone and the end of its lint calls, the
\* step leaves its temporary directory in place.
DirKeptUntilLinted(j) ==
  (bpc[j] \in {"cloned", "lint"} /\ bpc'[j] # "idle" /\ TempDir(Current(j)) \in tmpdirs)
     => TempDir(Current(j)) \in tmpdirs'

\* C17: in every interleaving each repository's steps are in order (clone,
\* discovery, lint calls one at a time in discovery order) and its temporary
\* directory is removed only after its last lint call.
C17_StepsOrdered ==
  [][\A j \in Batches : OwnStepsOrdered(j) /\ DirKeptUntilLinted(j)]_vars

\* What holds: each sequence's own steps are in order, and the directory
\* stays until the last lint call when no identifier is twice in the catalog.
C17_OrderedWhenKeyed ==
  [][\A j \in Batches :
       OwnStepsOrdered(j) /\ (CatalogKeyed => DirKeptUntilLinted(j))]_vars

\* A batch is between clone and the end of its lint calls and the directory
\* it cloned into is gone.
C17_DirGoneBeforeLinted ==
  \E j \in Batches :
     /\ bpc[j] \in {"cloned", "lint"}
     /\ TempDir(Current(j)) \notin tmpdirs
     /\ mainPc = "await"

\* Batch j has computed the temporary directory of its current repository
\* and has not yet finished removing it.
UsesTempDir(j) == bpc[j] \in {"cloned", "lint", "finally", "rejected"}

\* No two batches are at work on the same temporary directory path.
NoSharedTempDir ==
  \A j, k \in Batches :
     (j # k /\ UsesTempDir(j) /\ UsesTempDir(k))
        => TempDir(Current(j)) # TempDir(Current(k))

\* The removal at the end of batch j's sequence takes away no directory that
\* another batch has cloned into and is still scanning or linting.
CleanupSparesOthers(j) ==
  (bpc[j] = "finally" /\ TempDir(Current(j)) \in tmpdirs
                      /\ TempDir(Current(j)) \notin tmpdirs')
     => \A k \in Batches \ {j} :
           bpc[k] \in {"cloned", "lint"} => TempDir(Current(k)) # TempDir(Current(j))

\* C18: temporary clone directories are never shared: no two in-flight
\* sequences use the same directory path, and no sequence's removal takes the
\* directory another in-flight sequence is cloning into, scanning or linting.
C18_TempDirsNeverShared ==
  /\ []NoSharedTempDir
  /\ [][\A j \in Batches : CleanupSparesOthers(j)]_vars

\* What holds: directories are private when no identifier is twice in the
\* catalog, the path being made of the identifier alone.
C18_PrivateWhenKeyed ==
  /\ [](CatalogKeyed => NoSharedTempDir)
  /\ [][CatalogKeyed => \A j \in Batches : CleanupSparesOthers(j)]_vars

\* Two batches are at work on the same directory path at once, one of them
\* having cloned into it.
C18_SharedTempDir ==
  \E j, k \in Batches :
     /\ j # k
     /\ bpc[j] \in {"cloned", "lint"}
     /\ UsesTempDir(k)
     /\ TempDir(Current(j)) = TempDir(Current(k))

RECURSIVE ResultsBefore(_)
\* The number of Repository Results of the batches before batch j.
ResultsBefore(j) == IF j = 0 THEN 0 ELSE ResultsBefore(j - 1) + Len(results[j - 1])

\* While the batches of a super-batch run, a step loses nothing: the
\* Checkpoint Set keeps its members and every batch its results.
NothingLost ==
  (mainPc = "await" /\ mainPc' \in {"await", "writeResults"})
     => /\ processedRepos \subseteq processedRepos'
        /\ \A j \in Batches : IsPrefix(results[j], results'[j])

\* A sequence that completes adds its identifier to the Checkpoint Set and
\* one Repository Result, its own, to its batch; no other step adds a result
\* or a member.
OneResultPerCompletion ==
  mainPc = "await" =>
     /\ \A j \in Batches :
          IF Completes(j)
          THEN /\ Len(results'[j]) = Len(results[j]) + 1
               /\ results'[j][Len(results'[j])].repoMetadata.id = Current(j).id
               /\ RepoKey(Current(j)) \in processedRepos'
          ELSE mainPc' \in {"await", "writeResults"} => results'[j] = results[j]
     /\ (mainPc' \in {"await", "writeResults"} /\ processedRepos' # processedRepos)
          => \E j \in Batches :
                /\ Completes(j)
                /\ processedRepos' = processedRepos \cup {RepoKey(Current(j))}

\* When the super-batch completes, the accumulated results grow by exactly
\* the batches' results, each once, and every one of them is checkpointed.
AllAccumulated ==
  (mainPc = "await" /\ mainPc' = "writeResults")
     => /\ Len(allResults') = Len(allResults) + ResultsBefore(numBatches)
        /\ IsPrefix(allResults, allResults')
        /\ \A j \in Batches : \A k \in DOMAIN results[j] :
              /\ allResults'[Len(allResults) + ResultsBefore(j) + k] = results[j][k]
              /\ RepoKey(results[j][k].repoMetadata) \in processedRepos'

\* C19: in every interleaving of the batches, when a super-batch completes
\* the Checkpoint Set holds the identifier of every repository whose sequence
\* completed and the accumulated results hold exactly one Repository Result
\* for each such sequence.
C19_NoLostOrDuplicatedUpdate ==
  [][NothingLost /\ OneResultPerCompletion /\ AllAccumulated]_vars

\* A super-batch has completed in which every batch completed a sequence,
\* and all their results are accumulated.
C19_Witness ==
  /\ mainPc = "writeResults"
  /\ \A j \in Batches : Len(results[j]) >= 1
  /\ Len(allResults) >= ResultsBefore(numBatches)
  /\ \A k \in DOMAIN allResults :
        RepoKey(allResults[k].repoMetadata) \in processedRepos

----------------------------------------------------------------------------
(* Claims about the metadata fetch *)

\* searchUI5Repos.js: a failed fetch adds nothing to the catalog entries of
\* the run and main goes on with the next hit.
FailedFetchSkipped ==
  (Len(fetches') = Len(fetches) + 1 /\ ~fetches'[Len(fetches')].ok)
     => /\ reposWithMetadata' = reposWithMetadata
        /\ cursor' = cursor + 1
        /\ searchPc' = "enrich"

\* searchGitHub.js: no repository is cloned, scanned or linted while the
\* metadata kept for it is the absence marker.
NoWorkOnAbsentMetadata == ghPc \in {"cloned", "lint"} => Truthy(repoMetadata)

\* searchGitHub.js: no Repository Result holds the absence marker as metadata.
NoResultWithAbsentMetadata ==
  \A k \in DOMAIN ghResults : Truthy(ghResults[k].repoMetadata)

\* searchGitHub.js: the fetch hands a value to processBatch, it never throws
\* into the catch block.
FetchNeverRaises == ghPc = "finally" => repoMetadata # JsonUndefined

\* C20: when the metadata fetch fails, getRepoMetadata returns the absence
\* marker without raising and the caller skips the repository: it is not
\* added to the catalog, not cloned or linted with absent metadata, and no
\* Repository Result with absent metadata is recorded.
C20_AbsentMetadataSkipped ==
  /\ []FetchNeverRaises
  /\ []NoWorkOnAbsentMetadata
  /\ []NoResultWithAbsentMetadata
  /\ [][FailedFetchSkipped]_vars

\* What holds in both scripts: the fetch never raises; and in
\* searchUI5Repos.js the repository of a failed fetch is skipped.
C20_FetchAbsorbedCatalogSkips ==
  /\ []FetchNeverRaises
  /\ [][FailedFetchSkipped]_vars

\* processBatch of searchGitHub.js has recorded a Repository Result whose
\* metadata is the absence marker, for a repository it cloned and checkpointed.
C20_ResultWithAbsentMetadata ==
  \E k \in DOMAIN ghResults :
     /\ ghResults[k].repoMetadata = JsonNull
     /\ ghProcessed # {}
     /\ ghPc = "done"

----------------------------------------------------------------------------
(* Claims about the descent of findUI5Apps *)

\* Path a is a proper ancestor of path b.
ProperAncestor(a, b) == Len(a) < Len(b) /\ SubSeq(b, 1, Len(a)) = a

\* The directories of the tree that fail the structural test and that no
\* directory between the root and them passes it.
OutsideApps ==
  {d.path : d \in {e \in DirsOfTree :
     /\ ~IsUI5App(e.dir) \/ e.path = RootPath
     /\ \A q \in Qualifying \ {RootPath} : ~ProperAncestor(q, e.path)}}

\* C21: findUI5Apps does not descend into a directory that qualifies: no
\* returned path is a proper ancestor of another, every directory that does
\* not qualify and is reached from the root without passing through a
\* qualifying one is listed, and no other directory is.
C21_NoDescentIntoApps ==
  found.returned =>
     /\ \A k, l \in DOMAIN found.apps : ~ProperAncestor(found.apps[k], found.apps[l])
     /\ Range(found.read) = OutsideApps
     /\ \A k, l \in DOMAIN found.read : found.read[k] = found.read[l] => k = l

\* findUI5Apps has returned a directory that holds another qualifying
\* directory, which it neither returned nor listed, and has listed a
\* directory that does not qualify.
C21_Witness ==
  /\ found.returned
  /\ \E k \in DOMAIN found.apps : \E q \in Qualifying :
        /\ ProperAncestor(found.apps[k], q)
        /\ q \notin Range(found.apps)
        /\ q \notin Range(found.read)
  /\ \E p \in Range(found.read) : p # RootPath

----------------------------------------------------------------------------
(* Claims about the two files of the batch scheduler taken together *)

\* C22: at every point of any sequence of runs, every repository identifier
\* in the checkpoint file has at least one Repository Result in the results
\* file.
C22_CheckpointedHaveResults ==
  CheckpointOnDisk \subseteq ResultKeys(Persisted(analysisFile))

\* What holds: every identifier the current run has added to the checkpoint
\* file has a Repository Result in the results file.
C22_NewlyCheckpointedHaveResults ==
  mainPc # "idle" =>
     (CheckpointOnDisk \ loadedCheckpoint) \subseteq ResultKeys(Persisted(analysisFile))

\* A rerun that found every repository checkpointed has written its results,
\* and the results file holds no Repository Result although the checkpoint
\* file holds identifiers.
C22_RerunEmptiesResults ==
  /\ runs = 2
  /\ mainPc = "finalSave"
  /\ unprocessedRepos = <<>>
  /\ loadedCheckpoint # {}
  /\ CheckpointOnDisk = loadedCheckpoint
  /\ analysisFile.exists
  /\ Persisted(analysisFile) = <<>>

----------------------------------------------------------------------------
(* Claims about the grid of batches *)

\* The number of repositories one super-batch takes.
GridSize == batchSize * numBatches

\* The last position of the filtered list the super-batch starting after
\* position i takes.
GridEnd == IF i + GridSize < Len(unprocessedRepos) THEN i + GridSize
           ELSE Len(unprocessedRepos)

\* The step that starts a super-batch gives each batch at most batchSize
\* repositories, each the one at its position of the grid, and gives every
\* position of the super-batch's range to exactly one place of one batch.
GridAtDispatch ==
  (mainPc = "loop" /\ mainPc' = "await") =>
     /\ i % GridSize = 0
     /\ DOMAIN batch' = Batches
     /\ Cardinality(Batches) <= numBatches
     /\ \A j \in Batches :
          /\ Len(batch'[j]) <= batchSize
          /\ \A k \in DOMAIN batch'[j] :
                /\ i + j * batchSize + k <= Len(unprocessedRepos)
                /\ batch'[j][k] = unprocessedRepos[i + j * batchSize + k]
     /\ \A p \in (i + 1) .. GridEnd :
          Cardinality({jk \in Batches \X (1 .. batchSize) :
                         /\ jk[2] <= Len(batch'[jk[1]])
                         /\ i + jk[1] * batchSize + jk[2] = p}) = 1

\* The super-batches take consecutive ranges: main comes back to the head
\* of the loop one grid further, and leaves the loop only when no position
\* is left.
GridAdvances ==
  /\ (mainPc # "loop" /\ mainPc' = "loop")
        => \/ mainPc = "idle" /\ i' = 0
           \/ mainPc = "saveProcessed" /\ i' = i + GridSize
  /\ (mainPc = "loop" /\ mainPc' = "loop") => i' = i
  /\ (mainPc = "loop" /\ mainPc' = "finalWrite") => i >= Len(unprocessedRepos)
  /\ (mainPc = "loop" /\ mainPc' \notin {"loop", "await", "finalWrite", "idle"}) => FALSE

\* At most one repository per batch is between clone and cleanup, and in a
\* first run no more temporary directories than batches exist.
OnePerBatch ==
  /\ Cardinality({j \in Batches : InFlight(j)}) <= numBatches
  /\ \A j \in Batches : InFlight(j) => bidx[j] \in DOMAIN batch[j]
  /\ runs = 1 => Cardinality(tmpdirs) <= numBatches

\* C23: the grid gives every unprocessed repository, by position, to exactly
\* one batch of exactly one super-batch, a batch holds at most batchSize
\* repositories and a super-batch at most numBatches batches, and at most
\* numBatches repositories are between clone and cleanup at any moment.
C23_GridPartition ==
  /\ [][GridAtDispatch /\ GridAdvances]_vars
  /\ []OnePerBatch

\* The first super-batch of a list longer than the grid is running, every
\* batch full and between clone and cleanup on a directory of its own.
C23_Witness ==
  /\ mainPc = "await"
  /\ i = 0
  /\ Len(unprocessedRepos) > GridSize
  /\ \A j \in Batches : Len(batch[j]) = batchSize /\ bpc[j] \in {"cloned", "lint"}
  /\ Cardinality(tmpdirs) = numBatches

----------------------------------------------------------------------------
(* Claims about the consistency of the Aggregate Report *)

\* The keys of a table, and the sum of its counts.
KeysOf(table) == {table[k].key : k \in DOMAIN table}

RECURSIVE SumCounts(_, _)
SumCounts(table, k) ==
  IF k > Len(table) THEN 0 ELSE table[k].count + SumCounts(table, k + 1)

\* The count a table gives a key, 0 when it has no such key.
CountIn(table, key) ==
  IF HasKey(table, key)
  THEN table[CHOOSE k \in DOMAIN table : table[k].key = key].count
  ELSE 0

\* C24: in every report the key sets of ruleViolationDetails and
\* allRuleViolations are equal, the per-message counts of each rule sum to
\* the rule's count in allRuleViolations, the counts of deprecatedApiMessages
\* sum to the count of no-deprecated-api, and the second pass never looks up
\* a rule that has no ruleViolationDetails entry.
C24_ReportConsistent ==
  /\ ~report.threw
  /\ report.written =>
       LET all == report.allRuleViolations
           details == report.ruleViolationDetails
       IN /\ KeysOf(details) = KeysOf(all)
          /\ Len(details) = Cardinality(KeysOf(details))
          /\ Len(all) = Cardinality(KeysOf(all))
          /\ \A k \in DOMAIN details :
                /\ SumCounts(details[k].messages, 1) = CountIn(all, details[k].key)
                /\ details[k].count = CountIn(all, details[k].key)
          /\ SumCounts(report.deprecatedApiMessages, 1)
                = CountIn(all, "no-deprecated-api")

\* A report over more rules than topRuleViolations holds, one of them with
\* two texts, and with diagnostics of no-deprecated-api.
C24_Witness ==
  /\ report.written
  /\ Len(report.allRuleViolations) > TopN
  /\ Len(report.ruleViolationDetails) > TopN
  /\ \E k \in DOMAIN report.ruleViolationDetails :
        Len(report.ruleViolationDetails[k].messages) = 2
  /\ SumCounts(report.deprecatedApiMessages, 1) >= 2

====
